---- MODULE Spec2Model ----
(***************************************************************************)
(* Dynamic template plugin: the protocol dispatcher (handleUrlParams), the *)
(* manual command (showTemplateSelectionModal, createManualTemplate), the  *)
(* loader (runTemplateURLWithInjection), the validators of Template, the   *)
(* retry loop promptWithRetry and the prompt chains of the Wishlist and    *)
(* Resource definitions.                                                   *)
(*                                                                         *)
(* JavaScript runs each handler to its next await; the awaits that really  *)
(* suspend are the modal prompts and the vault calls, so an action is the  *)
(* code from one of these suspension points to the next.  The free names   *)
(* promptWithRetry, handleError, InputError ... used by the definition     *)
(* files are taken to be the functions of modals.ts and errors.ts.         *)
(*                                                                         *)
(* Spec runs the handlers over one scripts directory; SpecScan applies the *)
(* directory scan and the two loaders over every short directory listing;  *)
(* SpecValidate applies the two validators to metadata and parameter sets; *)
(* SpecSolo follows one invocation over wider inputs, with direct calls of *)
(* createTemplatedFile and the dispatcher that has a fallback;             *)
(* SpecSoloAnswered is SpecSolo with every open prompt and vault call      *)
(* eventually answered; SpecSettings runs the settings tab and its saves;  *)
(* SpecConfig applies writeConfig and updateConfig to KEY=VALUE files; and *)
(* SpecWishlist runs the 'Update Wishlist Status' command on a note.       *)
(***************************************************************************)
EXTENDS Integers, Sequences, FiniteSets, TLC

\* ------------------------------------------------------------------ bounds
\* InputError retries the user causes within one invocation
MaxRetries == 2

\* The invocations of an execution: a handler in flight and one that arrives
\* meanwhile or afterwards.
Inv == {1, 2}

\* ----------------------------------------------------------------- strings
Lower == "abcdefghijklmnopqrstuvwxyz"
Upper == "ABCDEFGHIJKLMNOPQRSTUVWXYZ"

CharAt(s, i) == SubSeq(s, i, i)

\* String.prototype.toUpperCase on one character
ToUpperCase(c) ==
    IF \E i \in 1..Len(Lower) : CharAt(Lower, i) = c
    THEN CharAt(Upper, CHOOSE i \in 1..Len(Lower) : CharAt(Lower, i) = c)
    ELSE c

RECURSIVE TrimStart(_)
TrimStart(s) ==
    IF Len(s) > 0 /\ CharAt(s, 1) = " " THEN TrimStart(SubSeq(s, 2, Len(s))) ELSE s

RECURSIVE TrimEnd(_)
TrimEnd(s) ==
    IF Len(s) > 0 /\ CharAt(s, Len(s)) = " " THEN TrimEnd(SubSeq(s, 1, Len(s) - 1)) ELSE s

\* String.prototype.trim
Trim(s) == TrimEnd(TrimStart(s))

\* `${type.charAt(0).toUpperCase() + type.slice(1)}Template`
TemplateClassName(type) ==
    (IF Len(type) = 0 THEN "" ELSE ToUpperCase(CharAt(type, 1)) \o SubSeq(type, 2, Len(type)))
        \o "Template"

\* itemTitle.replace(/[\\/:*?"<>|]/g, '-')
ForbiddenChars == {"\\", "/", ":", "*", "?", "\"", "<", ">", "|"}

RECURSIVE SanitizeTitle(_)
SanitizeTitle(s) ==
    IF Len(s) = 0 THEN ""
    ELSE (IF CharAt(s, 1) \in ForbiddenChars THEN "-" ELSE CharAt(s, 1))
            \o SanitizeTitle(SubSeq(s, 2, Len(s)))

\* `${type}/${title}.md`
FilePath(folder, name) == folder \o "/" \o name \o ".md"

\* --------------------------------------------------------------- JS values
\* A JavaScript value: undefined, null, a string, a number or an array of strings.
Undefined == [t |-> "undefined", s |-> "", n |-> 0, a |-> <<>>]
Null      == [t |-> "null",      s |-> "", n |-> 0, a |-> <<>>]
Str(x)    == [t |-> "string",    s |-> x,  n |-> 0, a |-> <<>>]
Num(k)    == [t |-> "number",    s |-> "", n |-> k, a |-> <<>>]
Arr(q)    == [t |-> "array",     s |-> "", n |-> 0, a |-> q]

\* ToBoolean
Truthy(v) ==
    CASE v.t = "string" -> v.s # ""
      [] v.t = "number" -> v.n # 0
      [] v.t = "array"  -> TRUE
      [] OTHER          -> FALSE

IsNullish(v) == v.t \in {"null", "undefined"}

\* A normalization that takes the last element of a sequence
LastOrSelf(p) ==
    IF p.t = "array"
    THEN (IF Len(p.a) > 0 THEN Str(p.a[Len(p.a)]) ELSE Undefined)
    ELSE p

\* Array.isArray(p) ? p[0] : p
FirstOrSelf(p) ==
    IF p.t = "array"
    THEN (IF Len(p.a) > 0 THEN Str(p.a[1]) ELSE Undefined)
    ELSE p

\* ---------------------------------------------------------------- metadata
BasicFields == <<"title", "url", "type">>

Contains(q, x) == \E i \in 1..Len(q) : q[i] = x

\* basicFields.filter(field => !requiredFields.includes(field))
RECURSIVE NotIncluded(_, _)
NotIncluded(fields, requiredFields) ==
    IF Len(fields) = 0 THEN <<>>
    ELSE (IF Contains(requiredFields, Head(fields)) THEN <<>> ELSE <<Head(fields)>>)
            \o NotIncluded(Tail(fields), requiredFields)

\* Array.prototype.join(', ')
RECURSIVE Join(_)
Join(q) ==
    IF Len(q) = 0 THEN ""
    ELSE IF Len(q) = 1 THEN q[1]
    ELSE q[1] \o ", " \o Join(Tail(q))

\* getMetadata() of the Wishlist definition
WishlistMetadata ==
    [ throws |-> FALSE,
      name |-> Str("Wishlist Template"),
      requiredFields |-> Arr(<<"title", "url", "type">>),
      supportedTypes |-> Arr(<<"wishlist", "items">>) ]

\* getMetadata() of the Resource definition
ResourceMetadata ==
    [ throws |-> FALSE,
      name |-> Str("Resource Template"),
      requiredFields |-> Arr(<<"title", "url", "type">>),
      supportedTypes |-> Arr(<<"article", "bookmark", "tutorial", "documentation",
                               "video", "tool", "reference", "research">>) ]

\* A user-written definition whose requiredFields leaves out 'type'
NoTypeMetadata ==
    [ throws |-> FALSE,
      name |-> Str("Note Template"),
      requiredFields |-> Arr(<<"title", "url">>),
      supportedTypes |-> Undefined ]

\* validateMetadata that leaves out the basic-fields rule
MetadataErrorNoBasicFields(metadata) ==
    IF metadata.throws THEN "getMetadata threw"
    ELSE IF ~Truthy(metadata.name) \/ metadata.name.t # "string"
    THEN "Template metadata must have a valid name"
    ELSE IF metadata.requiredFields.t # "array"
    THEN "Template metadata must specify requiredFields as an array"
    ELSE IF Len(metadata.requiredFields.a) = 0
    THEN "Template must specify at least one required field"
    ELSE ""

\* The message of the first rule validateMetadata finds violated, "" when none is
MetadataError(metadata) ==
    IF metadata.throws THEN "getMetadata threw"
    ELSE IF ~Truthy(metadata.name) \/ metadata.name.t # "string"
    THEN "Template metadata must have a valid name"
    ELSE IF metadata.requiredFields.t # "array"
    THEN "Template metadata must specify requiredFields as an array"
    ELSE IF Len(metadata.requiredFields.a) = 0
    THEN "Template must specify at least one required field"
    ELSE LET missingBasicFields == NotIncluded(BasicFields, metadata.requiredFields.a)
         IN  IF Len(missingBasicFields) > 0
             THEN "Template must include basic required fields: " \o Join(missingBasicFields)
             ELSE ""

\* Template.validateMetadata: true, or handleError and false
validateMetadata(metadata) == MetadataError(metadata) = ""

\* params[field]
Get(params, field) == IF field \in DOMAIN params THEN params[field] ELSE Undefined

RECURSIVE FirstMissing(_, _)
FirstMissing(fields, params) ==
    IF Len(fields) = 0 THEN ""
    ELSE LET v == Get(params, Head(fields))
         IN  IF ~Truthy(v) \/ (v.t = "string" /\ Trim(v.s) = "")
             THEN Head(fields)
             ELSE FirstMissing(Tail(fields), params)

\* The characters of a string, as `for (const field of aString)` yields them
Chars(s) == [k \in 1..Len(s) |-> CharAt(s, k)]

\* What `for (const field of requiredFields)` iterates over
Iterated(requiredFields) ==
    CASE requiredFields.t = "array"  -> requiredFields.a
      [] requiredFields.t = "string" -> Chars(requiredFields.s)
      [] OTHER                       -> <<>>

\* `${params.type}` for a type that is a string or undefined
TypeText(v) == IF v.t = "string" THEN v.s ELSE "undefined"

\* validateParams that leaves out the supportedTypes test
ParamsErrorAnyType(metadata, params) ==
    IF metadata.throws THEN "getMetadata threw"
    ELSE IF metadata.requiredFields.t \notin {"array", "string"}
    THEN "metadata.requiredFields is not iterable"
    ELSE IF FirstMissing(Iterated(metadata.requiredFields), params) # ""
    THEN "Missing required field: " \o FirstMissing(Iterated(metadata.requiredFields), params)
    ELSE ""

\* The message validateParams throws, "" when it throws none.  supportedTypes
\* is undefined or an array of strings.
ParamsError(metadata, params) ==
    IF metadata.throws THEN "getMetadata threw"
    ELSE IF metadata.requiredFields.t \notin {"array", "string"}
    THEN "metadata.requiredFields is not iterable"
    ELSE IF FirstMissing(Iterated(metadata.requiredFields), params) # ""
    THEN "Missing required field: " \o FirstMissing(Iterated(metadata.requiredFields), params)
    ELSE IF /\ Truthy(metadata.supportedTypes)
            /\ Len(metadata.supportedTypes.a) > 0
            /\ ~( /\ Get(params, "type").t = "string"
                  /\ Contains(metadata.supportedTypes.a, Get(params, "type").s) )
    THEN "Unsupported type '" \o TypeText(Get(params, "type")) \o "'. Supported types: "
            \o Join(metadata.supportedTypes.a)
    ELSE ""

\* Template.validateParams: true, or handleError and false
validateParams(metadata, params) == ParamsError(metadata, params) = ""

\* An enforceTitleUrlType that does not look at the url
enforceTitleTypeThrows(params) ==
    ~Truthy(Get(params, "title")) \/ ~Truthy(Get(params, "type"))

\* Template.enforceTitleUrlType throws
enforceTitleUrlTypeThrows(params) ==
    ~Truthy(Get(params, "title")) \/ ~Truthy(Get(params, "url")) \/ ~Truthy(Get(params, "type"))

\* ------------------------------------------------------------------ modals
\* What happens at a modal: the user presses Cancel, or submits the text typed
\* (for a select modal: the value attribute of the option chosen), or building
\* the modal throws inside the promise executor and the promise rejects (Fail).
Cancel      == [cancel |-> TRUE,  raw |-> "",  fails |-> FALSE]
Submit(raw) == [cancel |-> FALSE, raw |-> raw, fails |-> FALSE]
Fail        == [cancel |-> FALSE, raw |-> "",  fails |-> TRUE]

Resolved(v) == [resolved |-> TRUE,  value |-> v]
StaysOpen   == [resolved |-> FALSE, value |-> Undefined]

\* createTextPromptModal: resolves the trimmed text, null on Cancel; with
\* params.required an empty submission shows a notice and leaves the modal open
createTextPromptModal(params, gesture) ==
    IF gesture.cancel THEN Resolved(Null)
    ELSE IF params.required /\ Trim(gesture.raw) = "" THEN StaysOpen
    ELSE Resolved(Str(Trim(gesture.raw)))

\* createTextareaPromptModal
createTextareaPromptModal(params, gesture) ==
    IF gesture.cancel THEN Resolved(Null) ELSE Resolved(Str(Trim(gesture.raw)))

Digits == "0123456789"
IsDigit(c) == \E d \in 1..Len(Digits) : CharAt(Digits, d) = c
DigitVal(c) == (CHOOSE d \in 1..Len(Digits) : CharAt(Digits, d) = c) - 1

\* value.toString() of an option value
OptionToString(v) == IF v.t = "number" THEN CharAt(Digits, v.n + 1) ELSE v.s

\* createSelectPromptModal: the option whose value.toString() is the selected value
createSelectPromptModal(params, gesture) ==
    IF gesture.cancel THEN Resolved(Null)
    ELSE IF \E k \in 1..Len(params.options) : OptionToString(params.options[k]) = gesture.raw
    THEN Resolved(params.options[CHOOSE k \in 1..Len(params.options) :
                                    OptionToString(params.options[k]) = gesture.raw])
    ELSE Resolved(Str(gesture.raw))

\* s.split(',').map(tag => tag.trim()).filter(tag => tag)
RECURSIVE SplitTags(_, _)
SplitTags(s, cur) ==
    IF Len(s) = 0 THEN (IF Trim(cur) = "" THEN <<>> ELSE <<Trim(cur)>>)
    ELSE IF CharAt(s, 1) = ","
         THEN (IF Trim(cur) = "" THEN <<>> ELSE <<Trim(cur)>>) \o SplitTags(SubSeq(s, 2, Len(s)), "")
         ELSE SplitTags(SubSeq(s, 2, Len(s)), cur \o CharAt(s, 1))

\* createTagsPromptModal
createTagsPromptModal(params, gesture) ==
    IF gesture.cancel THEN Resolved(Null) ELSE Resolved(Arr(SplitTags(Trim(gesture.raw), "")))

\* val.replace(/[^0-9.]/g, '')
RECURSIVE StripNonNumeric(_)
StripNonNumeric(s) ==
    IF Len(s) = 0 THEN ""
    ELSE (IF IsDigit(CharAt(s, 1)) \/ CharAt(s, 1) = "." THEN CharAt(s, 1) ELSE "")
            \o StripNonNumeric(SubSeq(s, 2, Len(s)))

\* parseFloat on a string of digits and dots, to its integer part: NaN when the
\* string starts with neither a digit nor a dot followed by a digit
RECURSIVE LeadingInt(_, _)
LeadingInt(s, acc) ==
    IF Len(s) > 0 /\ IsDigit(CharAt(s, 1))
    THEN LeadingInt(SubSeq(s, 2, Len(s)), 10 * acc + DigitVal(CharAt(s, 1)))
    ELSE acc

parseFloat(s) ==
    IF Len(s) > 0 /\ IsDigit(CharAt(s, 1))
    THEN [nan |-> FALSE, n |-> LeadingInt(s, 0)]
    ELSE IF Len(s) > 1 /\ CharAt(s, 1) = "." /\ IsDigit(CharAt(s, 2))
    THEN [nan |-> FALSE, n |-> 0]
    ELSE [nan |-> TRUE, n |-> 0]

\* ------------------------------------------------------- prompt functions
Return(v)       == [k |-> "return",     v |-> v,         msg |-> ""]
Throw(kind, m)  == [k |-> kind,         v |-> Undefined, msg |-> m]
Pending         == [k |-> "pending",    v |-> Undefined, msg |-> ""]

NoOptions == <<>>
Args(message, defaultValue, required, options) ==
    [message |-> message, defaultValue |-> defaultValue, required |-> required,
     options |-> options]

\* The promptFn handed to promptWithRetry at each prompt site, applied to the
\* user's gesture: it returns a value, throws InputError or Error, or (modal
\* left open) has not settled yet.
PromptFn(fn, args, gesture) ==
    LET text == createTextPromptModal(args, gesture)
        area == createTextareaPromptModal(args, gesture)
        sel  == createSelectPromptModal(args, gesture)
        tags == createTagsPromptModal(args, gesture)
        Blank(val) == ~Truthy(val) \/ Trim(val.s) = ""
    IN  CASE gesture.fails -> Throw("Error", "modal failed")
          [] fn = "itemName" ->
               \* Wishlist: if (!val || val.trim() === '') throw new InputError(...)
               IF Blank(text.value) THEN Throw("InputError", "Item name cannot be empty")
               ELSE Return(text.value)
          [] fn = "price" ->
               IF text.value.t = "null" THEN Return(Null)
               ELSE LET parsed == parseFloat(StripNonNumeric(text.value.s))
                    IN  IF parsed.nan \/ parsed.n < 0
                        THEN Throw("InputError", "Invalid price value")
                        ELSE Return(Num(parsed.n))
          [] fn = "resourceTitle" ->
               \* promptForTitle (required: true), then the same emptiness test
               IF ~text.resolved THEN Pending
               ELSE IF Blank(text.value) THEN Throw("InputError", "Title cannot be empty")
               ELSE Return(text.value)
          [] fn = "manualTitle" ->
               \* createManualTemplate: throw new Error('Title cannot be empty')
               IF Blank(text.value) THEN Throw("Error", "Title cannot be empty")
               ELSE Return(text.value)
          [] fn = "text"     -> Return(text.value)
          [] fn = "select"   -> Return(sel.value)
          [] fn = "textarea" -> Return(area.value)
          [] fn = "tags"     -> Return(tags.value)

\* promptWithRetry without the `error instanceof InputError` branch: every
\* error is handled and ends the prompt
promptWithRetryNoLoop(outcome) ==
    CASE outcome.k = "return" ->
           [loop |-> FALSE, value |-> IF IsNullish(outcome.v) THEN Null ELSE outcome.v,
            handled |-> FALSE]
      [] OTHER ->
           [loop |-> FALSE, value |-> Null, handled |-> TRUE]

\* One turn of the while (true) loop of promptWithRetry on the promptFn's
\* outcome: return the value (null for null/undefined), loop again on
\* InputError, handleError and return null on any other error.
promptWithRetry(outcome) ==
    CASE outcome.k = "return" ->
           [loop |-> FALSE, value |-> IF IsNullish(outcome.v) THEN Null ELSE outcome.v,
            handled |-> FALSE]
      [] outcome.k = "InputError" ->
           [loop |-> TRUE, value |-> Undefined, handled |-> FALSE]
      [] OTHER ->
           [loop |-> FALSE, value |-> Null, handled |-> TRUE]

\* ---------------------------------------------------------- template content
\* _RESOURCE_TEMPLATE once the constructor has run: "" from the field
\* initializer, then the argument of each setResourceTemplate call in turn
AfterConstructor(calls) == IF Len(calls) = 0 THEN "" ELSE calls[Len(calls)]

\* A getter that returns the content without testing it
RESOURCE_TEMPLATE_Unchecked(content) == Return(Str(content))

\* get RESOURCE_TEMPLATE(): throws while the content is the empty string
RESOURCE_TEMPLATE(content) ==
    IF ~Truthy(Str(content)) THEN Throw("Error", "RESOURCE_TEMPLATE must be set before use.")
    ELSE Return(Str(content))

\* ------------------------------------------------------------ definitions
Step(field, fn, after, message, required, options) ==
    [field |-> field, fn |-> fn, after |-> after, message |-> message,
     required |-> required, options |-> options]

\* The steps of WishlistTemplate.promptForFields, with the test that follows
\* each: "strictNull" is (x === null) return null, "falsy" is (!x) return
\* null, "orEmpty" is the `|| ''` that replaces a null by the empty string.
WishlistChain ==
    << Step("title",    "itemName", "strictNull", "Item name:",          FALSE, NoOptions),
       Step("price",    "price",    "strictNull", "Price:",              FALSE, NoOptions),
       Step("category", "select",   "falsy",      "Select a category:",  FALSE,
            <<Str("Tech"), Str("Health"), Str("Home"), Str("Other")>>),
       Step("thoughts", "textarea", "orEmpty",    "Thoughts (optional):", FALSE, NoOptions),
       Step("priority", "select",   "falsy",      "Select priority:",    FALSE,
            <<Str("Low"), Str("Medium"), Str("High")>>) >>

\* The steps of ResourceTemplate.promptForFields
ResourceChain ==
    << Step("title",        "resourceTitle", "falsy", "Enter the title for your URL resource:",
            TRUE, NoOptions),
       Step("resourceType", "select",   "strictNull", "What type of resource is this?", FALSE,
            <<Str("article"), Str("bookmark"), Str("tutorial"), Str("documentation"),
              Str("video"), Str("tool"), Str("reference"), Str("research")>>),
       Step("tags",         "tags",     "strictNull", "Enter tags for your URL resource:",
            FALSE, NoOptions),
       Step("importance",   "select",   "strictNull", "Select the importance level:", FALSE,
            <<Num(1), Num(2), Num(3)>>),
       Step("description",  "textarea", "strictNull", "Enter a description:", FALSE, NoOptions) >>

\* A Wishlist definition that hands writeToFile the type instead of its folder
WishlistClassUnfiled ==
    [ metadata |-> WishlistMetadata, chain |-> WishlistChain,
      hasCreateTemplatedFile |-> TRUE, hasPromptForFields |-> TRUE,
      fixedFolder |-> "", sanitizes |-> TRUE,
      setResourceTemplate |-> <<"WISHLIST_TEMPLATE_CONTENT">> ]

\* What `new TemplateClass()` yields, by class
WishlistClass ==
    [ metadata |-> WishlistMetadata, chain |-> WishlistChain,
      hasCreateTemplatedFile |-> TRUE, hasPromptForFields |-> TRUE,
      fixedFolder |-> "Wishlist/Items", sanitizes |-> TRUE,
      setResourceTemplate |-> <<"WISHLIST_TEMPLATE_CONTENT">> ]

ResourceClass ==
    [ metadata |-> ResourceMetadata, chain |-> ResourceChain,
      hasCreateTemplatedFile |-> TRUE, hasPromptForFields |-> TRUE,
      fixedFolder |-> "", sanitizes |-> FALSE,
      setResourceTemplate |-> <<"RESOURCE_TEMPLATE_CONTENT">> ]

\* WishlistTemplate with a constructor that never calls setResourceTemplate
UnsetClass == [WishlistClass EXCEPT !.setResourceTemplate = <<>>]

\* ResourceTemplate with a constructor that calls setResourceTemplate('')
EmptiedClass == [ResourceClass EXCEPT !.setResourceTemplate = <<"">>]

\* A user-written subclass of Template whose metadata fails validation
NoteClass ==
    [ metadata |-> NoTypeMetadata, chain |-> ResourceChain,
      hasCreateTemplatedFile |-> TRUE, hasPromptForFields |-> TRUE,
      fixedFolder |-> "Notes", sanitizes |-> FALSE,
      setResourceTemplate |-> <<"# {{title}}">> ]

\* A class that does not implement promptForFields
PartialClass ==
    [ metadata |-> NoTypeMetadata, chain |-> <<>>,
      hasCreateTemplatedFile |-> TRUE, hasPromptForFields |-> FALSE,
      fixedFolder |-> "", sanitizes |-> FALSE,
      setResourceTemplate |-> <<"# {{title}}">> ]

Class(id) ==
    CASE id = "Wishlist" -> WishlistClass
      [] id = "Resource" -> ResourceClass
      [] id = "Note"     -> NoteClass
      [] id = "Unset"    -> UnsetClass
      [] id = "Emptied"  -> EmptiedClass
      [] OTHER           -> PartialClass

\* A definition file, by what evaluating its text does: throw, or run to the
\* end, and then either `module.exports = { ... }` or leave module.exports alone.
Export(name, cls) == [name |-> name, cls |-> cls]

WishlistScript == [throws |-> FALSE, assigns |-> TRUE,
                   exports |-> {Export("WishlistTemplate", "Wishlist")}]
ResourceScript == [throws |-> FALSE, assigns |-> TRUE,
                   exports |-> {Export("ResourceTemplate", "Resource")}]
NoteScript     == [throws |-> FALSE, assigns |-> TRUE,
                   exports |-> {Export("NoteTemplate", "Note")}]
PartialScript  == [throws |-> FALSE, assigns |-> TRUE,
                   exports |-> {Export("PartialTemplate", "Partial")}]
ThrowingScript == [throws |-> TRUE,  assigns |-> FALSE, exports |-> {}]
NoExportScript == [throws |-> FALSE, assigns |-> FALSE, exports |-> {}]

\* The exports of the plugin's own module before any definition is loaded
PluginExports == {Export("default", "Plugin")}

\* ------------------------------------------------------------------ loader
\* f.endsWith('.js')
EndsWithJs(f) == Len(f) >= 3 /\ SubSeq(f, Len(f) - 2, Len(f)) = ".js"

\* file.replace('.js', ''): the first occurrence only
RECURSIVE ReplaceJs(_)
ReplaceJs(f) ==
    IF Len(f) < 3 THEN f
    ELSE IF SubSeq(f, 1, 3) = ".js" THEN SubSeq(f, 4, Len(f))
    ELSE CharAt(f, 1) \o ReplaceJs(SubSeq(f, 2, Len(f)))

\* script.runInContext(context): context.module is the plugin's own module
\* object, so an assignment to module.exports outlives the context
RunInContext(script, exports) ==
    IF script.throws THEN [threw |-> TRUE, exports |-> exports]
    ELSE [threw |-> FALSE, exports |-> IF script.assigns THEN script.exports ELSE exports]

Loaded(cls, exports)  == [ok |-> TRUE,  cls |-> cls, err |-> "",  exports |-> exports]
LoadError(e, exports) == [ok |-> FALSE, cls |-> "",  err |-> e,   exports |-> exports]

\* context.module.exports[templateClassName], then new TemplateClass()
LookupClass(type, exports) ==
    LET hits == {e \in exports : e.name = TemplateClassName(type)}
    IN  IF hits = {} THEN LoadError("Template class not found", exports)
        ELSE Loaded((CHOOSE e \in hits : TRUE).cls, exports)

\* runTemplateURLWithInjection(app, settings, type, url, title): `directory`
\* maps the file names of the scripts directory to their text
runTemplateURLWithInjection(exports, directory, type) ==
    IF (type \o ".js") \notin DOMAIN directory
    THEN LoadError("File not found", exports)
    ELSE LET run == RunInContext(directory[type \o ".js"], exports)
         IN  IF run.threw THEN LoadError("script threw", run.exports)
             ELSE LookupClass(type, run.exports)

\* runTemplateManualWithInjection(app, settings, selectedType): the same code
runTemplateManualWithInjection(exports, directory, selectedType) ==
    IF (selectedType \o ".js") \notin DOMAIN directory
    THEN LoadError("File not found", exports)
    ELSE LET run == RunInContext(directory[selectedType \o ".js"], exports)
         IN  IF run.threw THEN LoadError("script threw", run.exports)
             ELSE LookupClass(selectedType, run.exports)

\* The scan loop of showTemplateSelectionModal and registerDynamicTemplateCommands
\* over the listing `files`: the options collected and module.exports after it
RECURSIVE ScanLoop(_, _, _, _)
ScanLoop(files, directory, exports, templateOptions) ==
    IF Len(files) = 0 THEN [options |-> templateOptions, exports |-> exports]
    ELSE LET file == Head(files)
             type == ReplaceJs(file)
             load == runTemplateURLWithInjection(exports, directory, type)
             inst == Class(load.cls)
             displayName ==
                 IF ~inst.metadata.throws /\ Truthy(inst.metadata.name)
                 THEN inst.metadata.name.s ELSE type
         IN  IF ~EndsWithJs(file)
             THEN ScanLoop(Tail(files), directory, exports, templateOptions)
             ELSE IF ~load.ok \/ ~inst.hasCreateTemplatedFile \/ ~inst.hasPromptForFields
             THEN ScanLoop(Tail(files), directory, load.exports, templateOptions)
             ELSE ScanLoop(Tail(files), directory, load.exports,
                           Append(templateOptions, [value |-> type, text |-> displayName]))

\* ------------------------------------------------------ the KEY=VALUE file
\* A Record<string, string>: its own enumerable properties in insertion order,
\* each a pair <<key, value>>
Keys(obj) == {obj[k][1] : k \in DOMAIN obj}
Value(obj, key) == obj[CHOOSE k \in DOMAIN obj : obj[k][1] = key][2]

\* obj[key] = value on a plain object: the __proto__ setter it inherits ignores
\* a string, any other key becomes or stays an own property
SetProperty(obj, key, value) ==
    IF key = "__proto__" THEN obj
    ELSE IF key \in Keys(obj)
    THEN [k \in DOMAIN obj |-> IF obj[k][1] = key THEN <<key, value>> ELSE obj[k]]
    ELSE Append(obj, <<key, value>>)

\* Object.assign(target, source)
RECURSIVE Assign(_, _)
Assign(target, source) ==
    IF Len(source) = 0 THEN target
    ELSE Assign(SetProperty(target, Head(source)[1], Head(source)[2]), Tail(source))

\* config.split(/\r?\n/): `cur` is the line being read
RECURSIVE SplitLines(_, _)
SplitLines(s, cur) ==
    IF Len(s) = 0 THEN <<cur>>
    ELSE IF CharAt(s, 1) = "\n"
    THEN <<IF Len(cur) > 0 /\ CharAt(cur, Len(cur)) = "\r"
           THEN SubSeq(cur, 1, Len(cur) - 1) ELSE cur>>
         \o SplitLines(SubSeq(s, 2, Len(s)), "")
    ELSE SplitLines(SubSeq(s, 2, Len(s)), cur \o CharAt(s, 1))

\* The positions of '=' in a line
Equals(line) == {p \in 1..Len(line) : CharAt(line, p) = "="}

Min(ps) == CHOOSE p \in ps : \A q \in ps : p <= q
Max(ps) == CHOOSE p \in ps : \A q \in ps : p >= q

NoMatch == [matched |-> FALSE, key |-> "", value |-> ""]
MatchAt(line, p) ==
    IF p = 1 \/ \E q \in p + 1..Len(line) : CharAt(line, q) \in {"\n", "\r"}
    THEN NoMatch
    ELSE [matched |-> TRUE, key |-> SubSeq(line, 1, p - 1), value |-> SubSeq(line, p + 1, Len(line))]

\* A match that takes the key up to the last '=' of the line
MatchLineGreedy(line) ==
    IF Equals(line) = {} THEN NoMatch ELSE MatchAt(line, Max(Equals(line)))

\* line.match(/^([^=]+)=(.*)$/): the key ends at the first '=', and `.`
\* matches no line break
MatchLine(line) ==
    IF Equals(line) = {} THEN NoMatch ELSE MatchAt(line, Min(Equals(line)))

\* The forEach of readConfig over the lines
RECURSIVE ReadLines(_, _)
ReadLines(lines, result) ==
    IF Len(lines) = 0 THEN result
    ELSE LET match == MatchLine(Head(lines))
         IN  ReadLines(Tail(lines),
                       IF match.matched THEN SetProperty(result, match.key, match.value)
                       ELSE result)

\* A file: absent, or its text
NoFile == [exists |-> FALSE, text |-> ""]
File(text) == [exists |-> TRUE, text |-> text]

\* readConfig(configPath): throws when the file does not exist
readConfig(file) ==
    IF ~file.exists THEN [threw |-> TRUE, obj |-> <<>>]
    ELSE [threw |-> FALSE, obj |-> ReadLines(SplitLines(file.text, ""), <<>>)]

\* Object.entries(configObj).map(([k, v]) => `${k}=${v}`).join('\n')
RECURSIVE JoinLines(_)
JoinLines(obj) ==
    IF Len(obj) = 0 THEN ""
    ELSE IF Len(obj) = 1 THEN obj[1][1] \o "=" \o obj[1][2]
    ELSE obj[1][1] \o "=" \o obj[1][2] \o "\n" \o JoinLines(Tail(obj))

\* writeConfig(configPath, configObj): the file afterwards
writeConfig(configObj) == File(JoinLines(configObj))

\* updateConfig(configPath, updates): the file afterwards, unchanged when
\* readConfig throws
updateConfig(file, updates) ==
    LET config == readConfig(file)
    IN  IF config.threw THEN file ELSE writeConfig(Assign(config.obj, updates))

\* The latest utility call: its name, its argument, what readConfig gave
\* before it ran, and whether it threw; and the calls made so far
NoCall == [fn |-> "", arg |-> <<>>, before |-> <<>>, threw |-> FALSE]
NoConfigFile == [file |-> NoFile, call |-> NoCall, calls |-> 0]

\* ------------------------------------------------------ the wishlist note
\* Whether pat stands in s at position p
At(s, p, pat) == p >= 1 /\ p + Len(pat) - 1 <= Len(s) /\ SubSeq(s, p, p + Len(pat) - 1) = pat

\* The least position from `from` on where pat occurs in s, 0 when there is none
IndexOf(s, pat, from) ==
    LET hits == {p \in from..Len(s) : At(s, p, pat)}
    IN  IF hits = {} THEN 0 ELSE Min(hits)

\* ^ under the m flag
LineStart(s, p) == p = 1 \/ CharAt(s, p - 1) = "\n"

\* The last position of the line that holds position p (p - 1 for an empty line)
LineEnd(s, p) ==
    LET q == IndexOf(s, "\n", p) IN IF q = 0 THEN Len(s) ELSE q - 1

\* content.match(/^- \[([ x])\] Mark as Inactive/m): the mark of the first match
CheckboxMatch(content) ==
    LET Marked(mark) == {p \in 1..Len(content) :
                            /\ LineStart(content, p)
                            /\ At(content, p, "- [" \o mark \o "] Mark as Inactive")}
        hits == Marked(" ") \cup Marked("x")
    IN  IF hits = {} THEN [matched |-> FALSE, mark |-> ""]
        ELSE [matched |-> TRUE, mark |-> IF Min(hits) \in Marked("x") THEN "x" ELSE " "]

\* content.match(/^---\n([\s\S]*?)\n---/): the match, its group and the rest
FrontmatterMatch(content) ==
    LET close == IndexOf(content, "\n---", 5)
    IN  IF ~At(content, 1, "---\n") \/ close = 0
        THEN [matched |-> FALSE, whole |-> "", group |-> "", rest |-> content]
        ELSE [matched |-> TRUE, whole |-> SubSeq(content, 1, close + 3),
              group |-> SubSeq(content, 5, close - 1),
              rest |-> SubSeq(content, close + 4, Len(content))]

\* The first match of /^status: .+$/m in the frontmatter: its position, 0 when
\* there is none
StatusMatch(frontmatterContent) ==
    LET hits == {p \in 1..Len(frontmatterContent) :
                    /\ LineStart(frontmatterContent, p)
                    /\ At(frontmatterContent, p, "status: ")
                    /\ LineEnd(frontmatterContent, p) >= p + 8}
    IN  IF hits = {} THEN 0 ELSE Min(hits)

\* What String.prototype.replace makes of a replacement string for a match at
\* the start of the subject with one capture group: $$ is $, $& the match,
\* $1 the group, $' the text after the match (the pattern for the text
\* before the match is left out: no content considered holds it)
RECURSIVE Expand(_, _, _, _)
Expand(replacement, whole, group, rest) ==
    LET p == IndexOf(replacement, "$", 1)
        next == CharAt(replacement, p + 1)
    IN  IF p = 0 THEN replacement
        ELSE IF p < Len(replacement) /\ next \in {"$", "&", "1", "'"}
        THEN SubSeq(replacement, 1, p - 1)
                \o (CASE next = "$" -> "$"
                       [] next = "&" -> whole
                       [] next = "1" -> group
                       [] OTHER      -> rest)
                \o Expand(SubSeq(replacement, p + 2, Len(replacement)), whole, group, rest)
        ELSE SubSeq(replacement, 1, p)
                \o Expand(SubSeq(replacement, p + 1, Len(replacement)), whole, group, rest)

\* newContent.replace(/(\*\*Status:\*\* ).+/, '$1' + newStatus)
ReplaceDetailsStatus(newContent, newStatus) ==
    LET label == "**Status:** "
        hits == {p \in 1..Len(newContent) :
                    /\ At(newContent, p, label)
                    /\ LineEnd(newContent, p) >= p + Len(label)}
        p == Min(hits)
    IN  IF hits = {} THEN newContent
        ELSE SubSeq(newContent, 1, p + Len(label) - 1) \o newStatus
                \o SubSeq(newContent, LineEnd(newContent, p) + 1, Len(newContent))

\* metadataCache.getFileCache(file): whether it has a frontmatter, and the
\* tags of that frontmatter (none when it has no tags)
NoFrontmatter == [frontmatter |-> FALSE, tags |-> <<>>]
Cached(tags) == [frontmatter |-> TRUE, tags |-> tags]

\* updateWishlistStatus(view) on a file with this content and this cache:
\* the content afterwards and the notice shown
updateWishlistStatus(content, cache) ==
    LET match == CheckboxMatch(content)
        newStatus == IF match.mark = "x" THEN "Inactive" ELSE "Active"
        frontmatterMatch == FrontmatterMatch(content)
        frontmatterContent == frontmatterMatch.group
        at == StatusMatch(frontmatterContent)
        newFrontmatter ==
            IF at # 0
            THEN SubSeq(frontmatterContent, 1, at - 1) \o "status: " \o newStatus
                    \o SubSeq(frontmatterContent, LineEnd(frontmatterContent, at) + 1,
                              Len(frontmatterContent))
            ELSE frontmatterContent \o "\nstatus: " \o newStatus
        newContent ==
            Expand("---\n" \o newFrontmatter \o "\n---", frontmatterMatch.whole,
                   frontmatterMatch.group, frontmatterMatch.rest) \o frontmatterMatch.rest
    IN  IF ~cache.frontmatter \/ Len(cache.tags) = 0 \/ ~Contains(cache.tags, "wishlist")
        THEN [content |-> content, notice |-> "This command only works on wishlist files"]
        ELSE IF ~match.matched
        THEN [content |-> content, notice |-> "Could not find status checkbox in this wishlist item"]
        ELSE IF ~frontmatterMatch.matched
        THEN [content |-> content, notice |-> "Could not find frontmatter in this file"]
        ELSE [content |-> ReplaceDetailsStatus(newContent, newStatus),
              notice |-> "Wishlist status updated to: " \o newStatus]

\* The file of the active view: its content, its cache, the content the file
\* began with, the content after each run of the command, and the notices
ActiveFile(content, cache) ==
    [content |-> content, cache |-> cache, original |-> content, after |-> <<>>, notices |-> <<>>]
NoActiveFile == ActiveFile("", NoFrontmatter)

\* ------------------------------------------------------------------- state
VARIABLES
    inv,            \* the invocations: position, parameters, history
    moduleExports,  \* module.exports of the plugin's module object
    scriptsDir,     \* the scripts directory: listing and file texts
    folders,        \* the vault's folders
    files,          \* the vault's files: path -> content
    lastScan,       \* the templateOptions the latest directory scan collected
    lastLoad,       \* the latest call of a loader: its type and what it gave
    checked,        \* a validator call made on its own: arguments and verdict
    plugin,         \* the plugin object: commands, settings, saves in flight, .config
    configFile,     \* a KEY=VALUE file and the latest utility call made on it
    activeFile      \* the file of the active view: content, cache, status updates

vars == <<inv, moduleExports, scriptsDir, folders, files, lastScan, lastLoad, checked, plugin,
          configFile, activeFile>>

NoArgs == Args("", "", FALSE, NoOptions)

\* What a scan and a load leave to be observed
NoScan == [done |-> FALSE, templateOptions |-> <<>>]
ScanRecord(templateOptions) == [done |-> TRUE, templateOptions |-> templateOptions]
NoLoad == [loader |-> "", type |-> "", ok |-> FALSE, cls |-> "", err |-> ""]
LoadRecord(loader, type, load) ==
    [loader |-> loader, type |-> type, ok |-> load.ok, cls |-> load.cls, err |-> load.err]

\* A validator call: fn is "" while the call is still to be made
Call(metadata, params) ==
    [fn |-> "", metadata |-> metadata, params |-> params, ok |-> FALSE, error |-> ""]
NoCheck == Call(WishlistMetadata, [type |-> Undefined, url |-> Undefined, title |-> Undefined,
                                   price |-> Undefined])

\* ---------------------------------------------------------- plugin object
\* path.join(a, b) of two clean paths
PathJoin(a, b) == a \o "/" \o b

\* adapter.getBasePath() of the desktop FileSystemAdapter
VaultPath  == "/vault"
PluginPath == PathJoin(VaultPath, ".obsidian/plugins/dynamic-templates")

\* The number of segments of a relative path
RECURSIVE Segments(_)
Segments(p) ==
    IF Len(p) = 0 THEN 1
    ELSE (IF CharAt(p, 1) = "/" THEN 1 ELSE 0) + Segments(SubSeq(p, 2, Len(p)))

RECURSIVE Ups(_)
Ups(n) == IF n = 0 THEN "" ELSE "../" \o Ups(n - 1)

\* path.relative(scriptPath, path.join(pluginPath, 'Template.js')) for a
\* scripts directory inside the vault
TemplateRelPath(dir) ==
    Ups(Segments(dir)) \o ".obsidian/plugins/dynamic-templates/Template.js"

\* The lines writeFullConfig writes to .config from the settings as they are
\* when it runs
ConfigContent(scriptsDirectory) ==
    LET dir == IF scriptsDirectory # "" THEN scriptsDirectory ELSE "Scripts"
    IN  << "VAULT_PATH=" \o VaultPath,
           "PLUGIN_PATH=" \o PluginPath,
           "SCRIPT_PATH=" \o PathJoin(VaultPath, dir),
           "TEMPLATE_PATH=Template.js",
           "TEMPLATE_REL_PATH=" \o TemplateRelPath(dir) >>

\* writeFullConfig that writes the settings as they were when its save began
writeFullConfigOfSave(current, saved) == ConfigContent(saved)

\* writeFullConfig(), run by saveSettings once its saveData has resolved:
\* it reads this.settings at that moment
writeFullConfig(current, saved) == ConfigContent(current)

\* The commands onload registers after the directory scan
StaticCommands == <<"Create file from template", "Update Wishlist Status">>

\* The plugin object: the names of its commands in registration order,
\* settings.scriptsDirectory, the saveData calls in flight (each with the
\* directory its handler had just set), the settings changes made so far,
\* whether a save ever began while another was in flight, and the lines of
\* .config
PluginState(commands, scriptsDirectory) ==
    [ commands |-> commands, scriptsDirectory |-> scriptsDirectory, saving |-> <<>>,
      changes |-> 0, overlapped |-> FALSE, config |-> ConfigContent(scriptsDirectory) ]

Idle ==
    [ pc |-> "idle", path |-> "none", site |-> "none", fn |-> "", run |-> 0, step |-> 0,
      args |-> NoArgs, cls |-> "", type |-> "", url |-> "", title |-> "",
      folder |-> "", name |-> "", folderExists |-> FALSE,
      resolved |-> FALSE, metaOk |-> FALSE, paramsOk |-> FALSE, chainOk |-> FALSE,
      chainRuns |-> 0, creates |-> 0, written |-> FALSE,
      inputErrors |-> 0, cancelled |-> FALSE, cancelledInChain |-> FALSE,
      fatalInChain |-> FALSE,
      blankTitle |-> FALSE, notices |-> <<>>, outcome |-> "",
      bag |-> [type |-> "", url |-> "", title |-> ""], extra |-> {}, passed |-> {},
      returned |-> "", loadFailed |-> FALSE, switched |-> FALSE ]

\* new Notice(...)
Notice(kind, text) == [kind |-> kind, text |-> text]
Notify(r, kind, text) == [r EXCEPT !.notices = Append(@, Notice(kind, text))]

\* handleError(error, context): one failure notice (and a console line)
handleError(r, context) == Notify(r, "failure", "[" \o context \o "]")

\* showSuccess(message, context)
showSuccess(r, context) == Notify(r, "success", "[" \o context \o "]")

Finished(r, outcome) ==
    [r EXCEPT !.pc = "done", !.site = "none", !.fn = "", !.args = NoArgs,
              !.outcome = IF r.outcome = "" THEN outcome ELSE r.outcome]

\* A top level that shows its success notice whatever `result` is
TopLevelResultIgnored(r, result, outcome) ==
    Finished(Notify([r EXCEPT !.returned = IF result THEN "true" ELSE "false"],
                    "success", "Resource file created successfully"), outcome)

\* createTemplatedFile or createManualTemplate returns `result`, and the lines
\* after `const result = await ...` of handleUrlParams and of
\* showTemplateSelectionModal; a caller that is neither shows nothing
TopLevelResult(r, result, outcome) ==
    LET r1 == [r EXCEPT !.returned = IF result THEN "true" ELSE "false"]
    IN  Finished(
            IF r.path = "url"
            THEN (IF result THEN Notify(r1, "success", "Resource file created successfully")
                            ELSE Notify(r1, "failure", "Failed to create resource file"))
            ELSE IF r.path = "manual"
            THEN (IF result THEN Notify(r1, "success", "file created successfully")
                            ELSE Notify(r1, "failure", "Failed to create file"))
            ELSE r1,
            outcome)

OpenPrompt(r, site, fn, args) ==
    [r EXCEPT !.pc = "prompt", !.site = site, !.fn = fn, !.args = args]

StepArgs(st, prefilledTitle) ==
    Args(st.message, IF st.field = "title" THEN prefilledTitle ELSE "", st.required, st.options)

\* promptForFields(app, prefilledTitle, prefilledUrl) up to its first prompt
promptForFields(r, run, prefilledTitle) ==
    LET st == Class(r.cls).chain[1]
    IN  [OpenPrompt(r, "chain", st.fn, StepArgs(st, prefilledTitle))
            EXCEPT !.run = run, !.step = 1, !.chainRuns = @ + 1]

\* Object.entries(params) without the undefined values
Entries(params) == {<<key, params[key]>> : key \in {k \in DOMAIN params : params[k] # Undefined}}

\* createTemplatedFile(app, params) up to its first prompt; `passed` keeps the
\* params object it was called with
createTemplatedFile(r, params) ==
    IF enforceTitleUrlTypeThrows(params) \/ ~Truthy(Get(params, "type"))
    THEN TopLevelResult(handleError([r EXCEPT !.passed = Entries(params)], "createTemplatedFile"),
                        FALSE, "fatal")
    ELSE promptForFields([r EXCEPT !.title = params.title.s, !.url = params.url.s,
                                   !.type = params.type.s, !.passed = Entries(params)],
                         2, params.title.s)

\* ------------------------------------------------------------------ inputs
\* Parameter bags a protocol call may carry
TypeValues  == {Undefined, Str("wishlist"), Str("Resource"), Str("Note"), Str("Broken"),
                Str("unknown"), Arr(<<"wishlist", "unknown">>)}
UrlValues   == {Undefined, Str("https://x")}
TitleValues == {Undefined, Str(""), Str("Foo"), Arr(<<"Foo", "Bar">>)}
Bags == [type : TypeValues, url : UrlValues, title : TitleValues]

\* Bags for a single invocation followed: more sequences, and an extra key
WideBags ==
    [type  : TypeValues \cup {Arr(<<>>), Arr(<<"wishlist", "Resource">>)},
     url   : UrlValues \cup {Arr(<<>>), Arr(<<"https://y", "https://x">>)},
     title : TitleValues \cup {Arr(<<>>), Arr(<<"Baz", "Bar">>)},
     note  : {Undefined, Str("n"), Arr(<<"n", "m">>)}]

\* The params of a call of createTemplatedFile made by other code than the
\* two handlers
DirectParams ==
    [type  : {Undefined, Str(""), Str("wishlist")},
     url   : {Undefined, Str(""), Str("https://x")},
     title : {Undefined, Str(""), Str("Foo")}]

\* Texts the user types
RawTexts  == {"", " ", "Foo", " Foo"}
RawUrls   == {"", "https://x"}
RawPrices == {"", "9", "x"}
RawTags   == {"", "a, b"}
RawNotes  == {"", "note"}

\* What the user may do at the open modal
Gestures(site, fn, args) ==
    {Cancel} \cup
    CASE site = "select" -> {Submit(OptionToString(args.options[k])) : k \in 1..Len(args.options)}
      [] fn = "select"   -> {Submit(OptionToString(args.options[1]))}
      [] fn = "price"    -> {Submit(t) : t \in RawPrices}
      [] fn = "tags"     -> {Submit(t) : t \in RawTags}
      [] fn = "textarea" -> {Submit(t) : t \in RawNotes}
      [] fn = "text"     -> {Submit(t) : t \in RawUrls}
      [] OTHER           -> {Submit(t) : t \in RawTexts \cup {args.defaultValue}}

\* What may happen at the open modal when a single invocation is followed:
\* besides the above, the modal fails to build, or the user types a title
\* with a character that paths forbid
WideGestures(site, fn, args) ==
    Gestures(site, fn, args) \cup {Fail} \cup
    (IF fn \in {"itemName", "resourceTitle", "manualTitle"} THEN {Submit("a/b")} ELSE {})

\* ----------------------------------------------------- the automated path
\* if (type && url) of a dispatcher that does not ask for the title
HasTypeAndUrl(type, url, title) == Truthy(type) /\ Truthy(url)

\* if (type) of a dispatcher that asks for the type only
HasType(type, url, title) == Truthy(type)

\* if (type && url && title)
HasRequiredParams(type, url, title) == Truthy(type) /\ Truthy(url) /\ Truthy(title)

\* handleUrlParams going from the loaded instance straight to createTemplatedFile
CreateUnvalidated(r, metadata, templateParams) == createTemplatedFile(r, templateParams)

\* handleUrlParams from the loaded instance on: validateMetadata, validateParams,
\* createTemplatedFile to its first prompt.  Every definition extends Template,
\* so the instance has both validators (the code calls each one if it exists).
ValidateAndCreate(r, metadata, templateParams) ==
    IF ~validateMetadata(metadata)
    THEN Finished(Notify(handleError(r, "validateMetadata"),
                         "failure", "failed metadata validation"), "metadata")
    ELSE IF ~validateParams(metadata, templateParams)
    THEN Finished(Notify(handleError([r EXCEPT !.metaOk = TRUE], "validateParams"),
                         "failure", "failed parameter validation"), "params")
    ELSE createTemplatedFile([r EXCEPT !.metaOk = TRUE, !.paramsOk = TRUE], templateParams)

\* handleUrlParams(params), to its first prompt or to its end
HandleUrlParams(i, params) ==
    /\ inv[i].pc = "idle"
    /\ LET type  == FirstOrSelf(params.type)
           url   == FirstOrSelf(params.url)
           title == FirstOrSelf(params.title)
           r0    == Notify([inv[i] EXCEPT !.path = "url",
                                          !.bag = [type |-> type.s, url |-> url.s, title |-> title.s],
                                          !.extra = {<<key, FirstOrSelf(params[key])>> :
                                                        key \in {k \in DOMAIN params \ {"type", "url", "title"} :
                                                                    params[k] # Undefined}}],
                           "info", "URL params received and stored.")
           load  == runTemplateURLWithInjection(moduleExports, scriptsDir.directory, type.s)
           r1    == [r0 EXCEPT !.cls = load.cls, !.resolved = TRUE, !.type = type.s]
           metadata == Class(load.cls).metadata
           templateParams == [type |-> type, url |-> url, title |-> title]
       IN  IF ~HasRequiredParams(type, url, title)
           THEN /\ inv' = [inv EXCEPT ![i] =
                       Finished(Notify(r0, "failure", "Missing required parameters: type, url, title"),
                                "missing")]
                /\ UNCHANGED <<moduleExports, lastLoad>>
           ELSE /\ moduleExports' = load.exports
                /\ lastLoad' = LoadRecord("url", type.s, load)
                /\ inv' = [inv EXCEPT ![i] =
                       IF ~load.ok
                       THEN Finished(Notify([r0 EXCEPT !.loadFailed = TRUE], "failure",
                                            "Failed to create resource file: " \o load.err),
                                     "load")
                       ELSE ValidateAndCreate(r1, metadata, templateParams)]
    /\ UNCHANGED <<scriptsDir, folders, files, lastScan, checked, plugin, configFile, activeFile>>

\* ------------------------------------------- the dispatcher with a fallback
\* create-url-file.js, the script fallbackCreateUrlFile requires: it exports
\* createUrlFileWithParams
FallbackScript == [throws |-> FALSE, assigns |-> TRUE,
                   exports |-> {Export("createUrlFileWithParams", "Function")}]

\* await import(`./${scriptsDirectory}/${templateFile}`), then
\* templateModule[templateClassName] and new TemplateClass()
ImportTemplate(directory, type) ==
    IF (type \o ".js") \notin DOMAIN directory THEN LoadError("Cannot find module", {})
    ELSE IF directory[type \o ".js"].throws THEN LoadError("script threw", {})
    ELSE LookupClass(type, IF directory[type \o ".js"].assigns
                           THEN directory[type \o ".js"].exports ELSE {})

\* fallbackCreateUrlFile(type, url, title): `result` is what
\* createUrlFileWithParams returns, true after it has created its file
fallbackCreateUrlFile(r, directory, result) ==
    IF "create-url-file.js" \notin DOMAIN directory
    THEN Finished(Notify(r, "failure", "No template or fallback script found for this type"),
                  "noFallback")
    ELSE Finished(IF result
                  THEN Notify([r EXCEPT !.written = TRUE], "success",
                              "Resource file created successfully (fallback)")
                  ELSE Notify(r, "failure", "Failed to create resource file (fallback)"),
                  "fallback")

\* handleUrlParams of the dispatcher that defines fallbackCreateUrlFile, to its
\* first prompt or to its end
LegacyHandleUrlParams(i, params, result) ==
    /\ inv[i].pc = "idle"
    /\ LET type  == FirstOrSelf(params.type)
           url   == FirstOrSelf(params.url)
           title == FirstOrSelf(params.title)
           r0    == Notify([inv[i] EXCEPT !.path = "url",
                                          !.bag = [type |-> type.s, url |-> url.s, title |-> title.s]],
                           "info", "URL params received and stored.")
           load  == ImportTemplate(scriptsDir.directory, type.s)
           r1    == [r0 EXCEPT !.cls = load.cls, !.resolved = TRUE, !.type = type.s]
           rf    == [r0 EXCEPT !.loadFailed = TRUE, !.switched = TRUE, !.type = type.s,
                               !.url = url.s, !.title = title.s]
           wrote == ~load.ok /\ result /\ "create-url-file.js" \in DOMAIN scriptsDir.directory
           path  == FilePath(type.s, title.s)
       IN  IF ~(Truthy(type) /\ Truthy(url) /\ Truthy(title))
           THEN /\ inv' = [inv EXCEPT ![i] =
                       Finished(Notify(r0, "failure", "Missing required parameters: type, url, title"),
                                "missing")]
                /\ UNCHANGED <<lastLoad, files>>
           ELSE /\ lastLoad' = LoadRecord("import", type.s, load)
                /\ inv' = [inv EXCEPT ![i] =
                       IF ~load.ok
                       THEN fallbackCreateUrlFile(rf, scriptsDir.directory, result)
                       ELSE ValidateAndCreate(r1, Class(load.cls).metadata,
                                              [type |-> type, url |-> url, title |-> title])]
                /\ files' = IF wrote /\ path \notin DOMAIN files
                            THEN [p \in DOMAIN files \cup {path} |->
                                    IF p = path THEN [cls |-> "fallback", title |-> title.s, url |-> url.s]
                                    ELSE files[p]]
                            ELSE files
    /\ UNCHANGED <<moduleExports, scriptsDir, folders, lastScan, checked, plugin, configFile, activeFile>>

\* -------------------------------------------------------- the prompt chain
\* The chain returned null: createTemplatedFile (or createManualTemplate)
\* returns false to the top level
ChainReturnedNull(r, outcome) == TopLevelResult(r, FALSE, outcome)

\* The chain returned userInputs.  In createManualTemplate (run 1) the params
\* are built and createTemplatedFile is called; in createTemplatedFile (run 2)
\* this.RESOURCE_TEMPLATE is read, the content is filled in and writeToFile
\* starts.
ChainReturned(r) ==
    LET cls == Class(r.cls)
        r1  == [r EXCEPT !.chainOk = TRUE]
        template == RESOURCE_TEMPLATE(AfterConstructor(cls.setResourceTemplate))
    IN  IF r.run = 1
        THEN createTemplatedFile(r1, [title |-> Str(r.title), url |-> Str(r.url), type |-> Str(r.type)])
        ELSE IF template.k # "return"
        THEN TopLevelResult(handleError(r1, "createTemplatedFile"), FALSE, "fatal")
        ELSE [r1 EXCEPT !.pc = "wExists", !.site = "none", !.fn = "", !.args = NoArgs,
                        !.folder = IF cls.fixedFolder # "" THEN cls.fixedFolder ELSE r.type,
                        !.name = IF cls.sanitizes THEN SanitizeTitle(r.title) ELSE r.title]

\* The user answers the open prompt of step r.step of promptForFields with g
AnswerChainWith(i, g) ==
    LET r   == inv[i]
        cls == Class(r.cls)
        st  == cls.chain[r.step]
        out == PromptFn(r.fn, r.args, g)
        pr  == promptWithRetry(out)
        r1  == [r EXCEPT !.cancelled = @ \/ g.cancel, !.cancelledInChain = @ \/ g.cancel,
                         !.inputErrors = IF out.k = "InputError" THEN @ + 1 ELSE @]
        r2  == IF pr.handled
               THEN handleError([r1 EXCEPT !.fatalInChain = TRUE], "promptForFields")
               ELSE r1
        returnsNull ==
            CASE st.after = "strictNull" -> pr.value.t = "null"
              [] st.after = "falsy"      -> ~Truthy(pr.value)
              [] OTHER                   -> FALSE
        r3  == IF st.field = "title" THEN [r2 EXCEPT !.title = pr.value.s] ELSE r2
        nxt == cls.chain[r.step + 1]
    IN  /\ r.pc = "prompt" /\ r.site = "chain"
        /\ out.k # "pending"
        /\ out.k = "InputError" => r.inputErrors < MaxRetries
        /\ inv' = [inv EXCEPT ![i] =
              IF pr.loop
              THEN Notify(r1, "retry", "Invalid input, please amend and try again.")
              ELSE IF returnsNull
              THEN ChainReturnedNull(r2, IF pr.handled THEN "fatal"
                                         ELSE IF g.cancel THEN "cancelled" ELSE "empty")
              ELSE IF r.step < Len(cls.chain)
              THEN [OpenPrompt(r3, "chain", nxt.fn, StepArgs(nxt, r3.title)) EXCEPT !.step = @ + 1]
              ELSE ChainReturned(r3)]
        /\ UNCHANGED <<moduleExports, scriptsDir, folders, files, lastScan, lastLoad, checked, plugin, configFile, activeFile>>

\* ------------------------------------------------------------- writeToFile
\* await vault.adapter.exists(type)
WriteExists(i) ==
    /\ inv[i].pc = "wExists"
    /\ inv' = [inv EXCEPT ![i] =
                [inv[i] EXCEPT !.folderExists = (inv[i].folder \in folders),
                               !.pc = IF inv[i].folder \in folders THEN "wCreate" ELSE "wMkdir"]]
    /\ UNCHANGED <<moduleExports, scriptsDir, folders, files, lastScan, lastLoad, checked, plugin, configFile, activeFile>>

\* await vault.createFolder(type): rejects when the folder exists by now
WriteCreateFolder(i) ==
    /\ inv[i].pc = "wMkdir"
    /\ IF inv[i].folder \in folders
       THEN /\ inv' = [inv EXCEPT ![i] = TopLevelResult(handleError(@, "writeToFile"), FALSE, "write")]
            /\ UNCHANGED folders
       ELSE /\ folders' = folders \cup {inv[i].folder}
            /\ inv' = [inv EXCEPT ![i].pc = "wCreate"]
    /\ UNCHANGED <<moduleExports, scriptsDir, files, lastScan, lastLoad, checked, plugin, configFile, activeFile>>

\* A writeToFile that calls vault.create again when it has rejected
WriteCreateAgain(i, ioError) ==
    LET r    == [inv[i] EXCEPT !.creates = @ + 1]
        path == FilePath(r.folder, r.name)
    IN  /\ inv[i].pc = "wCreate"
        /\ IF path \in DOMAIN files \/ ioError
           THEN /\ inv' = [inv EXCEPT ![i] = r]
                /\ UNCHANGED files
           ELSE /\ files' = [p \in DOMAIN files \cup {path} |->
                                IF p = path THEN [cls |-> r.cls, title |-> r.title, url |-> r.url]
                                ELSE files[p]]
                /\ inv' = [inv EXCEPT ![i] =
                      TopLevelResult(showSuccess([r EXCEPT !.written = TRUE], "writeToFile"),
                                     TRUE, "success")]
        /\ UNCHANGED <<moduleExports, scriptsDir, folders, lastScan, lastLoad, checked, plugin, configFile, activeFile>>

\* await vault.create(filePath, content): rejects when the file exists or the
\* write fails; then the success notice and `return true`
WriteCreate(i, ioError) ==
    LET r    == [inv[i] EXCEPT !.creates = @ + 1]
        path == FilePath(r.folder, r.name)
        content == [cls |-> r.cls, title |-> r.title, url |-> r.url]
    IN  /\ inv[i].pc = "wCreate"
        /\ IF path \in DOMAIN files \/ ioError
           THEN /\ inv' = [inv EXCEPT ![i] = TopLevelResult(handleError(r, "writeToFile"), FALSE, "write")]
                /\ UNCHANGED files
           ELSE /\ files' = [p \in DOMAIN files \cup {path} |->
                                IF p = path THEN content ELSE files[p]]
                /\ inv' = [inv EXCEPT ![i] =
                      TopLevelResult(showSuccess([r EXCEPT !.written = TRUE], "writeToFile"),
                                     TRUE, "success")]
        /\ UNCHANGED <<moduleExports, scriptsDir, folders, lastScan, lastLoad, checked, plugin, configFile, activeFile>>

\* ---------------------------------------------------------- the manual path
RECURSIVE OptionValues(_)
OptionValues(templateOptions) ==
    IF Len(templateOptions) = 0 THEN <<>>
    ELSE <<Str(Head(templateOptions).value)>> \o OptionValues(Tail(templateOptions))

RECURSIVE JsFiles(_)
JsFiles(listing) ==
    IF Len(listing) = 0 THEN <<>>
    ELSE (IF EndsWithJs(Head(listing)) THEN <<Head(listing)>> ELSE <<>>) \o JsFiles(Tail(listing))

\* showTemplateSelectionModal(), to the template selection prompt
ShowTemplateSelectionModal(i) ==
    LET r0   == [inv[i] EXCEPT !.path = "manual"]
        templateFiles == JsFiles(scriptsDir.files)
        scan == ScanLoop(templateFiles, scriptsDir.directory, moduleExports, <<>>)
    IN  /\ inv[i].pc = "idle"
        /\ IF Len(templateFiles) = 0
           THEN /\ inv' = [inv EXCEPT ![i] =
                       Finished(Notify(r0, "failure", "No templates found in Scripts directory"),
                                "noTemplates")]
                /\ UNCHANGED moduleExports
           ELSE /\ moduleExports' = scan.exports
                /\ inv' = [inv EXCEPT ![i] =
                       IF Len(scan.options) = 0
                       THEN Finished(Notify(r0, "failure", "No valid templates found"), "noTemplates")
                       ELSE OpenPrompt(r0, "select", "select",
                                       Args("Select template type:", scan.options[1].value, FALSE,
                                            OptionValues(scan.options)))]
        /\ lastScan' = ScanRecord(scan.options)
        /\ UNCHANGED <<scriptsDir, folders, files, lastLoad, checked, plugin, configFile, activeFile>>

\* The user answers the selection prompt: the rest of showTemplateSelectionModal
\* and createManualTemplate to its URL prompt
AnswerSelectWith(i, g) ==
    LET r    == inv[i]
        pr   == promptWithRetry(PromptFn(r.fn, r.args, g))
        selectedType == pr.value
        r1   == IF pr.handled THEN handleError(r, "showTemplateSelectionModal")
                ELSE [r EXCEPT !.cancelled = @ \/ g.cancel]
        load == runTemplateManualWithInjection(moduleExports, scriptsDir.directory, selectedType.s)
        r2   == [r1 EXCEPT !.cls = load.cls, !.resolved = TRUE, !.type = selectedType.s]
    IN  /\ r.pc = "prompt" /\ r.site = "select"
        /\ IF ~Truthy(selectedType)
           THEN /\ inv' = [inv EXCEPT ![i] =
                       Finished(r1, IF pr.handled THEN "fatal" ELSE "cancelled")]
                /\ UNCHANGED <<moduleExports, lastLoad>>
           ELSE /\ moduleExports' = load.exports
                /\ lastLoad' = LoadRecord("manual", selectedType.s, load)
                /\ inv' = [inv EXCEPT ![i] =
                       IF ~load.ok
                       THEN Finished(Notify(r1, "failure", "Failed to load template: " \o load.err),
                                     "load")
                       ELSE IF ~validateMetadata(Class(load.cls).metadata)
                       THEN Finished(Notify(handleError(r2, "validateMetadata"),
                                            "failure", "failed metadata validation"), "metadata")
                       ELSE OpenPrompt([r2 EXCEPT !.metaOk = TRUE], "manUrl", "text",
                                       Args("Enter URL:", "", FALSE, NoOptions))]
        /\ UNCHANGED <<scriptsDir, folders, files, lastScan, checked, plugin, configFile, activeFile>>

\* createManualTemplate: the user answers the URL prompt
AnswerManualUrlWith(i, g) ==
    LET r   == inv[i]
        pr  == promptWithRetry(PromptFn(r.fn, r.args, g))
        url == pr.value
        r1  == IF pr.handled THEN handleError(r, "Template.createManualTemplate")
               ELSE [r EXCEPT !.cancelled = @ \/ g.cancel]
    IN  /\ r.pc = "prompt" /\ r.site = "manUrl"
        /\ inv' = [inv EXCEPT ![i] =
              IF ~Truthy(url)
              THEN TopLevelResult(r1, FALSE, IF pr.handled THEN "fatal"
                                             ELSE IF g.cancel THEN "cancelled" ELSE "empty")
              ELSE OpenPrompt([r1 EXCEPT !.url = url.s], "manTitle", "manualTitle",
                              Args("Enter title:", "", FALSE, NoOptions))]
        /\ UNCHANGED <<moduleExports, scriptsDir, folders, files, lastScan, lastLoad, checked, plugin, configFile, activeFile>>

\* createManualTemplate: the user answers the title prompt
AnswerManualTitleWith(i, g) ==
    LET r     == inv[i]
        out   == PromptFn(r.fn, r.args, g)
        pr    == promptWithRetry(out)
        title == pr.value
        r1    == [r EXCEPT !.cancelled = @ \/ g.cancel,
                           !.blankTitle = @ \/ (~g.cancel /\ Trim(g.raw) = ""),
                           !.inputErrors = IF out.k = "InputError" THEN @ + 1 ELSE @]
        r2    == IF pr.handled THEN handleError(r1, "Template.createManualTemplate") ELSE r1
    IN  /\ r.pc = "prompt" /\ r.site = "manTitle"
        /\ out.k = "InputError" => r.inputErrors < MaxRetries
        /\ inv' = [inv EXCEPT ![i] =
              IF pr.loop
              THEN Notify(r1, "retry", "Invalid input, please amend and try again.")
              ELSE IF ~Truthy(title)
              THEN TopLevelResult(r2, FALSE, IF pr.handled THEN "fatal"
                                             ELSE IF g.cancel THEN "cancelled" ELSE "empty")
              ELSE promptForFields([r2 EXCEPT !.title = title.s], 1, title.s)]
        /\ UNCHANGED <<moduleExports, scriptsDir, folders, files, lastScan, lastLoad, checked, plugin, configFile, activeFile>>

AnswerSelect(i) ==
    \E g \in Gestures(inv[i].site, inv[i].fn, inv[i].args) : AnswerSelectWith(i, g)

AnswerManualUrl(i) ==
    \E g \in Gestures(inv[i].site, inv[i].fn, inv[i].args) : AnswerManualUrlWith(i, g)

AnswerManualTitle(i) ==
    \E g \in Gestures(inv[i].site, inv[i].fn, inv[i].args) : AnswerManualTitleWith(i, g)

AnswerChain(i) ==
    \E g \in Gestures(inv[i].site, inv[i].fn, inv[i].args) : AnswerChainWith(i, g)

\* ------------------------------------------------------------ specification
\* A scripts directory: the Wishlist and Resource definitions, a definition
\* with invalid metadata, a file that throws when evaluated, and a file that
\* is no script
MainDir ==
    [ files |-> <<"Broken.js", "Note.js", "Resource.js", "notes.txt", "wishlist.js">>,
      directory |-> [f \in {"Broken.js", "Note.js", "Resource.js", "wishlist.js"} |->
                        CASE f = "Broken.js"   -> ThrowingScript
                          [] f = "Note.js"     -> NoteScript
                          [] f = "Resource.js" -> ResourceScript
                          [] OTHER             -> WishlistScript] ]

\* The same directory with the fallback script in it
FallbackDir ==
    [ files |-> <<"Broken.js", "Note.js", "Resource.js", "create-url-file.js", "notes.txt",
                  "wishlist.js">>,
      directory |-> [f \in DOMAIN MainDir.directory \cup {"create-url-file.js"} |->
                        IF f = "create-url-file.js" THEN FallbackScript
                        ELSE MainDir.directory[f]] ]

Init ==
    /\ inv = [i \in Inv |-> Idle]
    /\ moduleExports = PluginExports
    /\ scriptsDir = MainDir
    /\ folders = {}
    /\ files = <<>>
    /\ lastScan = NoScan
    /\ lastLoad = NoLoad
    /\ checked = NoCheck
    /\ plugin = PluginState(StaticCommands, "Scripts")
    /\ configFile = NoConfigFile
    /\ activeFile = NoActiveFile

Next ==
    \E i \in Inv :
        \/ \E params \in Bags : HandleUrlParams(i, params)
        \/ ShowTemplateSelectionModal(i)
        \/ AnswerSelect(i)
        \/ AnswerManualUrl(i)
        \/ AnswerManualTitle(i)
        \/ AnswerChain(i)
        \/ WriteExists(i)
        \/ WriteCreateFolder(i)
        \/ \E ioError \in BOOLEAN : WriteCreate(i, ioError)

Spec == Init /\ [][Next]_vars

\* ------------------------------------------------- one invocation followed
\* The first invocation alone, over the wider inputs
SoloHandleUrlParams == \E params \in WideBags : HandleUrlParams(1, params)

SoloShowTemplateSelectionModal == ShowTemplateSelectionModal(1)

SoloAnswerSelect ==
    \E g \in WideGestures(inv[1].site, inv[1].fn, inv[1].args) : AnswerSelectWith(1, g)

SoloAnswerManualUrl ==
    \E g \in WideGestures(inv[1].site, inv[1].fn, inv[1].args) : AnswerManualUrlWith(1, g)

SoloAnswerManualTitle ==
    \E g \in WideGestures(inv[1].site, inv[1].fn, inv[1].args) : AnswerManualTitleWith(1, g)

SoloAnswerChain ==
    \E g \in WideGestures(inv[1].site, inv[1].fn, inv[1].args) : AnswerChainWith(1, g)

SoloWriteCreate == \E ioError \in BOOLEAN : WriteCreate(1, ioError)

SoloLegacyHandleUrlParams ==
    \E params \in Bags : \E result \in BOOLEAN : LegacyHandleUrlParams(1, params, result)

\* templateInstance.createTemplatedFile(app, params) called on an instance of
\* a shipped definition, to its first prompt or to its end
CallCreateTemplatedFile ==
    \E cls \in {"Wishlist", "Resource", "Unset", "Emptied"} : \E params \in DirectParams :
        /\ inv[1].pc = "idle"
        /\ inv' = [inv EXCEPT ![1] =
               createTemplatedFile([inv[1] EXCEPT !.path = "direct", !.cls = cls], params)]
        /\ UNCHANGED <<moduleExports, scriptsDir, folders, files, lastScan, lastLoad, checked, plugin, configFile, activeFile>>

NextSolo ==
    \/ SoloHandleUrlParams
    \/ SoloShowTemplateSelectionModal
    \/ SoloAnswerSelect
    \/ SoloAnswerManualUrl
    \/ SoloAnswerManualTitle
    \/ SoloAnswerChain
    \/ WriteExists(1)
    \/ WriteCreateFolder(1)
    \/ SoloWriteCreate
    \/ CallCreateTemplatedFile
    \/ SoloLegacyHandleUrlParams

InitSolo ==
    /\ inv = [i \in Inv |-> Idle]
    /\ moduleExports = PluginExports
    /\ scriptsDir \in {MainDir, FallbackDir}
    /\ folders = {}
    /\ files = <<>>
    /\ lastScan = NoScan
    /\ lastLoad = NoLoad
    /\ checked = NoCheck
    /\ plugin = PluginState(StaticCommands, "Scripts")
    /\ configFile = NoConfigFile
    /\ activeFile = NoActiveFile

SpecSolo == InitSolo /\ [][NextSolo]_vars

\* The steps that carry the invocation on once it has begun: an answer to its
\* open prompt, and the settling of each vault call of writeToFile
SoloProgress ==
    \/ SoloAnswerSelect
    \/ SoloAnswerManualUrl
    \/ SoloAnswerManualTitle
    \/ SoloAnswerChain
    \/ WriteExists(1)
    \/ WriteCreateFolder(1)
    \/ SoloWriteCreate

\* The invocation when every open prompt is answered in the end and every
\* vault call settles; the user gives up retrying after MaxRetries invalid
\* inputs at most
SpecSoloAnswered == SpecSolo /\ WF_vars(SoloProgress)

\* ------------------------------------------- the loader over directories
\* The longest directory listing
MaxFiles == 3

\* The files a scripts directory may hold.  Wishlist.js is a copy of
\* wishlist.js whose module.exports line was removed; both names give the
\* class name WishlistTemplate.
FileNames == {"Broken.js", "Partial.js", "Resource.js", "Wishlist.js", "wishlist.js", "notes.txt"}

FileText(f) ==
    CASE f = "Broken.js"   -> ThrowingScript
      [] f = "Partial.js"  -> PartialScript
      [] f = "Resource.js" -> ResourceScript
      [] f = "wishlist.js" -> WishlistScript
      [] OTHER             -> NoExportScript

\* fs.readdirSync(scriptsDir): the names in the order the file system gives
Listings ==
    {q \in UNION {[1..n -> FileNames] : n \in 0..MaxFiles} :
        \A a, b \in DOMAIN q : a # b => q[a] # q[b]}

Dir(listing) ==
    [ files |-> listing,
      directory |-> [f \in {listing[k] : k \in DOMAIN listing} |-> FileText(f)] ]

\* The types a loader may be asked for in a directory
Types(dir) == {ReplaceJs(dir.files[k]) : k \in DOMAIN dir.files} \cup {"unknown"}

InitScan ==
    /\ inv = [i \in Inv |-> Idle]
    /\ moduleExports = PluginExports
    /\ scriptsDir \in {Dir(q) : q \in Listings}
    /\ folders = {}
    /\ files = <<>>
    /\ lastScan = NoScan
    /\ lastLoad = NoLoad
    /\ checked = NoCheck
    /\ plugin = PluginState(<<>>, "Scripts")
    /\ configFile = NoConfigFile
    /\ activeFile = NoActiveFile

\* A scan that tries each instance with the example url and title it is
\* loaded with
ScanInstanceTry(r, directory, type) ==
    createTemplatedFile([r EXCEPT !.path = "scan",
                                  !.cls = runTemplateURLWithInjection(PluginExports, directory, type).cls],
                        [type |-> Str(type), url |-> Str("https://example.com"),
                         title |-> Str(type \o " Example")])

\* What the scan loop does with an instance it keeps: two typeof tests and
\* getMetadata(), none of which reaches outside the instance; r is the
\* invocation a prompt or a createTemplatedFile call would belong to
ScanInstanceUse(r, directory, type) == r

\* The loop's uses of the instances it listed, in order
RECURSIVE ScanUses(_, _, _)
ScanUses(r, directory, templateOptions) ==
    IF Len(templateOptions) = 0 THEN r
    ELSE ScanUses(ScanInstanceUse(r, directory, Head(templateOptions).value), directory,
                  Tail(templateOptions))

\* The end of onload, before any handler runs: registerDynamicTemplateCommands()
\* collects templateOptions and drops them, then the two addCommand calls
RegisterDynamicTemplateCommands ==
    LET templateFiles == JsFiles(scriptsDir.files)
        scan == ScanLoop(templateFiles, scriptsDir.directory, moduleExports, <<>>)
    IN  /\ lastScan = NoScan /\ lastLoad = NoLoad
        /\ moduleExports' = scan.exports
        /\ lastScan' = ScanRecord(scan.options)
        /\ plugin' = [plugin EXCEPT !.commands = @ \o StaticCommands]
        /\ inv' = [inv EXCEPT ![1] = ScanUses(@, scriptsDir.directory, scan.options)]
        /\ UNCHANGED <<scriptsDir, folders, files, lastLoad, checked, configFile, activeFile>>

\* The directory scan of showTemplateSelectionModal
ScanScriptsDirectory ==
    LET templateFiles == JsFiles(scriptsDir.files)
        scan == ScanLoop(templateFiles, scriptsDir.directory, moduleExports, <<>>)
    IN  /\ lastScan.done \/ lastLoad # NoLoad
        /\ moduleExports' = scan.exports
        /\ lastScan' = ScanRecord(scan.options)
        /\ inv' = [inv EXCEPT ![1] = ScanUses(@, scriptsDir.directory, scan.options)]
        /\ UNCHANGED <<scriptsDir, folders, files, lastLoad, checked, plugin, configFile, activeFile>>

\* runTemplateURLWithInjection, as handleUrlParams calls it
LoadForUrl ==
    \E type \in Types(scriptsDir) :
        LET load == runTemplateURLWithInjection(moduleExports, scriptsDir.directory, type)
        IN  /\ moduleExports' = load.exports
            /\ lastLoad' = LoadRecord("url", type, load)
            /\ UNCHANGED <<inv, scriptsDir, folders, files, lastScan, checked, plugin, configFile, activeFile>>

\* runTemplateManualWithInjection, as showTemplateSelectionModal calls it
LoadForManual ==
    \E selectedType \in Types(scriptsDir) :
        LET load == runTemplateManualWithInjection(moduleExports, scriptsDir.directory, selectedType)
        IN  /\ moduleExports' = load.exports
            /\ lastLoad' = LoadRecord("manual", selectedType, load)
            /\ UNCHANGED <<inv, scriptsDir, folders, files, lastScan, checked, plugin, configFile, activeFile>>

NextScan ==
    \/ RegisterDynamicTemplateCommands
    \/ ScanScriptsDirectory
    \/ LoadForUrl
    \/ LoadForManual

SpecScan == InitScan /\ [][NextScan]_vars

\* ------------------------------------------------------- the settings tab
\* Settings changes of an execution
MaxChanges == 3

\* Texts typed into the scripts-directory field, and folders the suggester offers
DirTexts    == {"", " A", "A", "B/C"}
FolderPaths == {"A", "B/C", "Scripts"}

\* Array.prototype.splice(k - 1, 1)
RemoveAt(q, k) == SubSeq(q, 1, k - 1) \o SubSeq(q, k + 1, Len(q))

\* this.plugin.settings.scriptsDirectory = val, then saveSettings() up to its
\* await of saveData
ChangeScriptsDirectory(val) ==
    /\ plugin.changes < MaxChanges
    /\ plugin' = [plugin EXCEPT !.scriptsDirectory = val,
                                 !.saving = Append(@, val),
                                 !.changes = @ + 1,
                                 !.overlapped = @ \/ plugin.saving # <<>>]
    /\ UNCHANGED <<inv, moduleExports, scriptsDir, folders, files, lastScan, lastLoad, checked, configFile, activeFile>>

\* The 'input' listener: input.value.trim() || 'Scripts'
InputScriptsDirectory ==
    \E text \in DirTexts :
        ChangeScriptsDirectory(IF Trim(text) # "" THEN Trim(text) ELSE "Scripts")

\* The FolderSuggest callback: folder.path, and saveSettings() is not awaited
PickFolder == \E path \in FolderPaths : ChangeScriptsDirectory(path)

\* One saveData in flight resolves and its saveSettings goes on to writeFullConfig
SaveDataResolves ==
    \E k \in 1..Len(plugin.saving) :
        /\ plugin' = [plugin EXCEPT
                         !.saving = RemoveAt(@, k),
                         !.config = writeFullConfig(plugin.scriptsDirectory, plugin.saving[k])]
        /\ UNCHANGED <<inv, moduleExports, scriptsDir, folders, files, lastScan, lastLoad, checked, configFile, activeFile>>

\* The settings loaded at onload: the default, or a directory saved earlier
InitSettings ==
    /\ inv = [i \in Inv |-> Idle]
    /\ moduleExports = PluginExports
    /\ scriptsDir = MainDir
    /\ folders = {}
    /\ files = <<>>
    /\ lastScan = NoScan
    /\ lastLoad = NoLoad
    /\ checked = NoCheck
    /\ plugin \in {PluginState(StaticCommands, dir) : dir \in FolderPaths}
    /\ configFile = NoConfigFile
    /\ activeFile = NoActiveFile

NextSettings == InputScriptsDirectory \/ PickFolder \/ SaveDataResolves

SpecSettings == InitSettings /\ [][NextSettings]_vars

\* ------------------------------------------------- the config file utilities
\* The most properties of a config object or an updates object
MaxProperties == 2

\* The most calls made on the file
MaxCalls == 2

\* Keys and values of the objects handed to writeConfig and updateConfig
ConfigKeys   == {"a", "b", "__proto__", "a=b", ""}
ConfigValues == {"", "1", "x=y", "1\nb=2"}

ConfigObjects ==
    {obj \in UNION {[1..n -> ConfigKeys \X ConfigValues] : n \in 0..MaxProperties} :
        \A k, m \in DOMAIN obj : k # m => obj[k][1] # obj[m][1]}

InitConfig ==
    /\ inv = [i \in Inv |-> Idle]
    /\ moduleExports = PluginExports
    /\ scriptsDir = MainDir
    /\ folders = {}
    /\ files = <<>>
    /\ lastScan = NoScan
    /\ lastLoad = NoLoad
    /\ checked = NoCheck
    /\ plugin = PluginState(StaticCommands, "Scripts")
    /\ configFile = NoConfigFile
    /\ activeFile = NoActiveFile

\* What readConfig gives on the file as it is, <<>> when it throws
Before == readConfig(configFile.file).obj

WriteConfig ==
    \E configObj \in ConfigObjects :
        /\ configFile.calls < MaxCalls
        /\ configFile' = [file |-> writeConfig(configObj),
                          call |-> [fn |-> "writeConfig", arg |-> configObj, before |-> Before,
                                    threw |-> FALSE],
                          calls |-> configFile.calls + 1]
        /\ UNCHANGED <<inv, moduleExports, scriptsDir, folders, files, lastScan, lastLoad, checked,
                       plugin, activeFile>>

UpdateConfig ==
    \E updates \in ConfigObjects :
        /\ configFile.calls < MaxCalls
        /\ configFile' = [file |-> updateConfig(configFile.file, updates),
                          call |-> [fn |-> "updateConfig", arg |-> updates, before |-> Before,
                                    threw |-> readConfig(configFile.file).threw],
                          calls |-> configFile.calls + 1]
        /\ UNCHANGED <<inv, moduleExports, scriptsDir, folders, files, lastScan, lastLoad, checked,
                       plugin, activeFile>>

NextConfig == WriteConfig \/ UpdateConfig

SpecConfig == InitConfig /\ [][NextConfig]_vars

\* ------------------------------------------------ the wishlist status command
\* The most runs of the command on the file
MaxRuns == 2

\* Lines a note may have: in its frontmatter a tags line, a status line and
\* one more line, in its body the checkbox and the status of the Details
\* section ("" stands for no such line).  The cache of a note has the tags
\* its tags line gives.
TagsLines     == {"tags: [wishlist]", "tags: [book]"}
StatusLines   == {"", "status: Active", "status: Inactive"}
OtherLines    == {"", "url: https://x", "price: $15", "range: $$$"}
CheckboxLines == {"", "- [ ] Mark as Inactive", "- [x] Mark as Inactive"}
DetailsLines  == {"", "- **Status:** Active"}

Line(l) == IF l = "" THEN "" ELSE l \o "\n"

NoteBody(checkbox, details) == "\n# Foo\n\n" \o Line(checkbox) \o "\n## Details\n" \o Line(details)

Notes ==
    {ActiveFile("---\n" \o Line(tags) \o Line(status) \o Line(other) \o "---\n"
                    \o NoteBody(checkbox, details),
                Cached(IF tags = "tags: [wishlist]" THEN <<"wishlist">> ELSE <<"book">>)) :
        tags \in TagsLines, status \in StatusLines, other \in OtherLines,
        checkbox \in CheckboxLines, details \in DetailsLines}
    \cup {ActiveFile(NoteBody(checkbox, details), NoFrontmatter) :
              checkbox \in CheckboxLines, details \in DetailsLines}

InitWishlist ==
    /\ inv = [i \in Inv |-> Idle]
    /\ moduleExports = PluginExports
    /\ scriptsDir = MainDir
    /\ folders = {}
    /\ files = <<>>
    /\ lastScan = NoScan
    /\ lastLoad = NoLoad
    /\ checked = NoCheck
    /\ plugin = PluginState(StaticCommands, "Scripts")
    /\ configFile = NoConfigFile
    /\ activeFile \in Notes

\* The 'Update Wishlist Status' command with the note in the active view:
\* vault.read, the tests, vault.modify and the notice
UpdateWishlistStatus ==
    LET out == updateWishlistStatus(activeFile.content, activeFile.cache)
    IN  /\ Len(activeFile.after) < MaxRuns
        /\ activeFile' = [activeFile EXCEPT !.content = out.content,
                                            !.after = Append(@, out.content),
                                            !.notices = Append(@, out.notice)]
        /\ UNCHANGED <<inv, moduleExports, scriptsDir, folders, files, lastScan, lastLoad, checked,
                       plugin, configFile>>

NextWishlist == UpdateWishlistStatus

SpecWishlist == InitWishlist /\ [][NextWishlist]_vars

\* ------------------------------------------------ the validators on their own
\* What getMetadata() of a user-written definition may return
NameValues           == {Undefined, Str(""), Str("Wishlist Template"), Num(1)}
RequiredFieldsValues == {Undefined, Str("title"), Arr(<<>>),
                         Arr(<<"title", "url">>), Arr(<<"title", "url", "type">>),
                         Arr(<<"title", "url", "type", "price">>),
                         Arr(<<"price", "type", "url", "title">>)}
SupportedTypesValues == {Undefined, Arr(<<>>), Arr(<<"wishlist", "items">>)}

\* A definition whose getMetadata() throws
ThrowingMetadata ==
    [throws |-> TRUE, name |-> Undefined, requiredFields |-> Undefined,
     supportedTypes |-> Undefined]

Metadatas ==
    [throws : {FALSE}, name : NameValues, requiredFields : RequiredFieldsValues,
     supportedTypes : SupportedTypesValues] \cup {ThrowingMetadata}

\* Candidate parameter sets: a field that is Undefined is absent
ParamSets ==
    [type  : {Undefined, Str("wishlist"), Str("unknown")},
     url   : {Str(""), Str("https://x")},
     title : {Undefined, Str(" "), Str("Foo")},
     price : {Undefined, Str(""), Num(0), Num(5)}]

InitValidate ==
    /\ inv = [i \in Inv |-> Idle]
    /\ moduleExports = PluginExports
    /\ scriptsDir = MainDir
    /\ folders = {}
    /\ files = <<>>
    /\ lastScan = NoScan
    /\ lastLoad = NoLoad
    /\ checked \in {Call(metadata, params) : metadata \in Metadatas, params \in ParamSets}
    /\ plugin = PluginState(StaticCommands, "Scripts")
    /\ configFile = NoConfigFile
    /\ activeFile = NoActiveFile

\* templateInstance.validateMetadata()
ValidateMetadata ==
    /\ checked.fn = ""
    /\ checked' = [checked EXCEPT !.fn = "validateMetadata",
                                  !.ok = validateMetadata(checked.metadata),
                                  !.error = MetadataError(checked.metadata)]
    /\ UNCHANGED <<inv, moduleExports, scriptsDir, folders, files, lastScan, lastLoad, plugin, configFile, activeFile>>

\* templateInstance.validateParams(params)
ValidateParams ==
    /\ checked.fn = ""
    /\ checked' = [checked EXCEPT !.fn = "validateParams",
                                  !.ok = validateParams(checked.metadata, checked.params),
                                  !.error = ParamsError(checked.metadata, checked.params)]
    /\ UNCHANGED <<inv, moduleExports, scriptsDir, folders, files, lastScan, lastLoad, plugin, configFile, activeFile>>

NextValidate == ValidateMetadata \/ ValidateParams

SpecValidate == InitValidate /\ [][NextValidate]_vars

\* ---------------------------------------------------------------- properties
FailureNotices(r) == Cardinality({k \in 1..Len(r.notices) : r.notices[k].kind = "failure"})

\* C1: in every invocation, automated or manual, vault.create is invoked only
\* if earlier in that invocation the template was resolved, validateMetadata
\* returned true, the prompt chain returned a non-null result and
\* validateParams returned true.
C1_CreateOnlyAfterEveryStage ==
    \A i \in Inv :
        inv[i].creates > 0 =>
            inv[i].resolved /\ inv[i].metaOk /\ inv[i].chainOk /\ inv[i].paramsOk

\* C2: no two invocations are suspended at a prompt at the same time.
C2_OnePromptChainAtATime ==
    \A i, j \in Inv : i # j => ~(inv[i].pc = "prompt" /\ inv[j].pc = "prompt")

\* C3: once the user has cancelled a step of a prompt chain, the chain is
\* over: the invocation is at no prompt any more, promptForFields returned
\* null and no file is written.
C3_CancelEndsChain ==
    \A i \in Inv :
        inv[i].cancelledInChain =>
            inv[i].pc = "done" /\ inv[i].outcome = "cancelled" /\ inv[i].creates = 0

\* C4: whenever a step's prompt function raises InputError, the same prompt is
\* issued again with the same arguments: the invocation stays at the same
\* site, run and step of its chain (no advance, no restart), however many
\* InputErrors came before.
C4_InputErrorReissuesSameRequest ==
    [][\A i \in Inv :
          inv'[i].inputErrors = inv[i].inputErrors + 1 =>
              /\ inv[i].pc = "prompt" /\ inv'[i].pc = "prompt"
              /\ inv'[i].site = inv[i].site /\ inv'[i].fn = inv[i].fn
              /\ inv'[i].args = inv[i].args
              /\ inv'[i].run = inv[i].run /\ inv'[i].step = inv[i].step
              /\ inv'[i].chainRuns = inv[i].chainRuns
              /\ inv'[i].outcome = ""]_vars

\* C4 witness: a chain prompt open again after MaxRetries InputErrors
C4_Witness ==
    \E i \in Inv :
        inv[i].inputErrors >= MaxRetries /\ inv[i].pc = "prompt" /\ inv[i].site = "chain"

\* C5: in the manual path an empty title submission is answered by issuing the
\* title prompt again (a retry), and the flow is not abandoned before it has
\* reached the template's prompt chain.
C5_BlankManualTitleIsRetried ==
    \A i \in Inv :
        inv[i].blankTitle =>
            inv[i].inputErrors >= 1 /\ ~(inv[i].pc = "done" /\ inv[i].chainRuns = 0)

\* C6: in the manual path the template's prompt chain is run exactly once per
\* invocation.
C6_ManualChainRunsOnce ==
    \A i \in Inv :
        inv[i].path = "manual" =>
            inv[i].chainRuns <= 1 /\ (inv[i].written => inv[i].chainRuns = 1)

\* C7: an invocation in which the user cancelled a prompt ends with no failure
\* notice and with no file written.
C7_CancelShowsNoFailure ==
    \A i \in Inv :
        inv[i].cancelled /\ inv[i].pc = "done" =>
            FailureNotices(inv[i]) = 0 /\ ~inv[i].written

\* C8: an invocation that fails for a non-retryable reason shows exactly one
\* failure notice.
NonRetryable == {"load", "metadata", "params", "fatal", "write"}

C8_ExactlyOneFailureNotice ==
    \A i \in Inv :
        inv[i].pc = "done" /\ inv[i].outcome \in NonRetryable =>
            FailureNotices(inv[i]) = 1

\* What a file gives when it is the only one ever loaded
OwnLoad(directory, type) == runTemplateURLWithInjection(PluginExports, directory, type)

\* The options of the files that are valid by their own text, in listing order
RECURSIVE ValidOptions(_, _)
ValidOptions(templateFiles, directory) ==
    IF Len(templateFiles) = 0 THEN <<>>
    ELSE LET type == ReplaceJs(Head(templateFiles))
             own  == OwnLoad(directory, type)
             inst == Class(own.cls)
             displayName ==
                 IF ~inst.metadata.throws /\ Truthy(inst.metadata.name)
                 THEN inst.metadata.name.s ELSE type
         IN  (IF own.ok /\ inst.hasCreateTemplatedFile /\ inst.hasPromptForFields
              THEN <<[value |-> type, text |-> displayName]>> ELSE <<>>)
             \o ValidOptions(Tail(templateFiles), directory)

\* C9: a directory scan lists exactly the definitions that are valid by their
\* own text (the file evaluates, exports the class named after it, and the
\* instance has createTemplatedFile and promptForFields), in directory order,
\* each with the key and display name it has on its own; every other file is
\* skipped.
C9_ScanListsExactlyTheValidDefinitions ==
    lastScan.done =>
        lastScan.templateOptions = ValidOptions(JsFiles(scriptsDir.files), scriptsDir.directory)

\* C10: the result of loading a type (the class instantiated, or the failure)
\* is the result its file gives on its own, whatever was loaded before.
C10_LoadDependsOnlyOnOwnFile ==
    lastLoad # NoLoad =>
        LET own == OwnLoad(scriptsDir.directory, lastLoad.type)
        IN  lastLoad.ok = own.ok /\ lastLoad.cls = own.cls /\ lastLoad.err = own.err

\* C11: every key a scan has put in the template list resolves
\* (runTemplateManualWithInjection succeeds), and the requiredFields of the
\* resolved template's metadata contain 'title', 'url' and 'type'.
C11_ListedKeysResolveWithBasicFields ==
    lastScan.done =>
        \A k \in 1..Len(lastScan.templateOptions) :
            LET load == runTemplateManualWithInjection(moduleExports, scriptsDir.directory,
                                                       lastScan.templateOptions[k].value)
                requiredFields == Class(load.cls).metadata.requiredFields
            IN  /\ load.ok
                /\ requiredFields.t = "array"
                /\ {"title", "url", "type"} \subseteq
                       {requiredFields.a[j] : j \in 1..Len(requiredFields.a)}

\* The notice handleUrlParams shows for an incomplete bag
MissingReported(r) ==
    \E k \in 1..Len(r.notices) :
        r.notices[k] = Notice("failure", "Missing required parameters: type, url, title")

\* C12: a protocol call whose normalized type, url or title is absent or empty
\* reports the missing parameters and stops: no definition is loaded, no
\* prompt is opened, nothing is written, and the step that reports it leaves
\* module.exports, the folders and the files as they were.
C12_MissingParameterStops ==
    /\ [](\A i \in Inv :
            (inv[i].path = "url" /\ "" \in {inv[i].bag.type, inv[i].bag.url, inv[i].bag.title}) =>
                /\ inv[i].pc = "done" /\ inv[i].outcome = "missing" /\ MissingReported(inv[i])
                /\ ~inv[i].resolved /\ inv[i].chainRuns = 0
                /\ inv[i].creates = 0 /\ inv[i].folder = "")
    /\ [][\A i \in Inv :
            (inv[i].pc = "idle" /\ inv'[i].outcome = "missing") =>
                UNCHANGED <<moduleExports, lastLoad, folders, files>>]_vars

\* C12 witness: scenario C, type and url present and the title missing
C12_Witness ==
    \E i \in Inv :
        /\ inv[i].outcome = "missing"
        /\ inv[i].bag = [type |-> "wishlist", url |-> "https://x", title |-> ""]

\* C13 as stated: the bag {type: "unknown"}, with no url and no title, is
\* aborted because its template is not found.
C13_UnknownTypeAloneIsTemplateNotFound ==
    \A i \in Inv :
        (inv[i].pc = "done" /\ inv[i].bag = [type |-> "unknown", url |-> "", title |-> ""]) =>
            inv[i].outcome = "load" /\ inv[i].creates = 0

\* C13, amended: the bag {type: "unknown"} without url and title is aborted
\* for its missing parameters, before any template is looked up; with url and
\* title supplied, the type "unknown" is aborted because its definition file
\* is not found.  In both cases no prompt is opened and nothing is created.
C13_UnknownTypeAborts ==
    \A i \in Inv :
        (inv[i].path = "url" /\ inv[i].bag.type = "unknown") =>
            /\ inv[i].pc = "done" /\ inv[i].chainRuns = 0 /\ inv[i].creates = 0
            /\ IF inv[i].bag.url = "" \/ inv[i].bag.title = ""
               THEN inv[i].outcome = "missing" /\ MissingReported(inv[i])
               ELSE /\ inv[i].outcome = "load"
                    /\ \E k \in 1..Len(inv[i].notices) :
                          inv[i].notices[k] =
                              Notice("failure", "Failed to create resource file: File not found")

\* C13 witness: both cases have happened
C13_Witness ==
    \E i, j \in Inv :
        /\ inv[i].bag = [type |-> "unknown", url |-> "", title |-> ""]
        /\ inv[i].outcome = "missing"
        /\ inv[j].bag = [type |-> "unknown", url |-> "https://x", title |-> "Foo"]
        /\ inv[j].outcome = "load"

\* The bag of scenario A
ScenarioA == [type |-> "wishlist", url |-> "https://x", title |-> "Foo"]

\* Invocation i ran with no other invocation started
Alone(i) == \A j \in Inv \ {i} : inv[j].pc = "idle"

\* C14: a protocol call with the bag of scenario A, running on its own, with
\* every prompt of the Wishlist chain answered and the title left as 'Foo',
\* invokes vault.create exactly once, for folder 'Wishlist/Items' and name
\* 'Foo'; on success that file exists.
C14_ScenarioAWritesOnce ==
    \A i \in Inv :
        (inv[i].path = "url" /\ inv[i].bag = ScenarioA) =>
            /\ inv[i].creates <= 1
            /\ (inv[i].pc = "done" /\ inv[i].chainOk /\ inv[i].title = "Foo" /\ Alone(i)) =>
                  /\ inv[i].creates = 1
                  /\ inv[i].folder = "Wishlist/Items" /\ inv[i].name = "Foo"
                  /\ inv[i].outcome = "success" => "Wishlist/Items/Foo.md" \in DOMAIN files

\* C14 witness: scenario A ended with the file written
C14_Witness ==
    \E i \in Inv :
        /\ inv[i].path = "url" /\ inv[i].bag = ScenarioA /\ Alone(i)
        /\ inv[i].pc = "done" /\ inv[i].chainOk /\ inv[i].title = "Foo"
        /\ inv[i].outcome = "success" /\ inv[i].creates = 1
        /\ "Wishlist/Items/Foo.md" \in DOMAIN files

\* C15: a protocol call with non-empty url and title whose type is the file
\* stem of a definition that loads and has valid metadata passes parameter
\* validation (and so, with every prompt answered, goes on to create its file).
C15_FileStemTypeIsAccepted ==
    \A i \in Inv :
        ( /\ inv[i].path = "url" /\ inv[i].bag.url # "" /\ inv[i].bag.title # ""
          /\ (inv[i].bag.type \o ".js") \in DOMAIN scriptsDir.directory
          /\ inv[i].resolved /\ inv[i].metaOk ) =>
            inv[i].paramsOk /\ inv[i].outcome # "params"

\* C16: in the automated path validateParams gives its verdict only after the
\* prompt chain has returned its fields (so that the verdict is about the
\* merge of the bag with the collected fields).
C16_ParamsValidatedAfterChain ==
    \A i \in Inv :
        (inv[i].path = "url" /\ (inv[i].paramsOk \/ inv[i].outcome = "params")) =>
            inv[i].chainOk

\* The templateParams handleUrlParams builds from a bag
BagParams(bag) == [type |-> Str(bag.type), url |-> Str(bag.url), title |-> Str(bag.title)]

AbsentOrBlank(params, field) ==
    LET v == Get(params, field)
    IN  v.t = "undefined" \/ (v.t = "string" /\ Trim(v.s) = "")

\* The set of the declared supportedTypes, empty when none is declared
TypeSet(metadata) ==
    IF metadata.supportedTypes.t = "array"
    THEN {metadata.supportedTypes.a[k] : k \in 1..Len(metadata.supportedTypes.a)}
    ELSE {}

TypeAllowed(metadata, params) ==
    TypeSet(metadata) = {} \/
    (Get(params, "type").t = "string" /\ Get(params, "type").s \in TypeSet(metadata))

\* C18: for a definition with valid metadata, validateParams returns true
\* exactly when every required field is present and, if a string, non-blank
\* after trimming, and the type is allowed by supportedTypes (so a present
\* number 0 is accepted); a missing or blank required field is rejected with
\* the first such field, in requiredFields order, in the message.
C18_ValidateParamsAcceptsExactlyTheValid ==
    (checked.fn = "validateParams" /\ validateMetadata(checked.metadata)) =>
        LET requiredFields == checked.metadata.requiredFields.a
            bad == {k \in 1..Len(requiredFields) : AbsentOrBlank(checked.params, requiredFields[k])}
        IN  /\ checked.ok <=> (bad = {} /\ TypeAllowed(checked.metadata, checked.params))
            /\ bad # {} =>
                  checked.error = "Missing required field: "
                      \o requiredFields[CHOOSE k \in bad : \A m \in bad : k <= m]

NameRule(metadata) == metadata.name.t = "string" /\ metadata.name.s # ""

ArrayRule(metadata) == metadata.requiredFields.t = "array"

NonEmptyRule(metadata) == metadata.requiredFields.a # <<>>

RequiredSet(metadata) ==
    {metadata.requiredFields.a[k] : k \in 1..Len(metadata.requiredFields.a)}

BasicRule(metadata) == {"title", "url", "type"} \subseteq RequiredSet(metadata)

\* C20: validateMetadata returns true exactly when name is a non-empty
\* string, requiredFields is a non-empty array and contains title, url and
\* type; on failure it returns false with the reason of the first violated
\* rule, in the order name, array-ness, non-emptiness, basic fields.
C20_ValidateMetadataExact ==
    /\ (checked.fn = "validateMetadata" /\ checked.metadata.throws) => checked.ok = FALSE
    /\ (checked.fn = "validateMetadata" /\ ~checked.metadata.throws) =>
        LET metadata == checked.metadata
        IN  /\ checked.ok \in BOOLEAN
            /\ checked.ok <=> ( /\ NameRule(metadata) /\ ArrayRule(metadata)
                                 /\ NonEmptyRule(metadata) /\ BasicRule(metadata) )
            /\ checked.ok => checked.error = ""
            /\ ~NameRule(metadata) =>
                  checked.error = "Template metadata must have a valid name"
            /\ (NameRule(metadata) /\ ~ArrayRule(metadata)) =>
                  checked.error = "Template metadata must specify requiredFields as an array"
            /\ (NameRule(metadata) /\ ArrayRule(metadata) /\ ~NonEmptyRule(metadata)) =>
                  checked.error = "Template must specify at least one required field"
            /\ ( /\ NameRule(metadata) /\ ArrayRule(metadata)
                  /\ NonEmptyRule(metadata) /\ ~BasicRule(metadata) ) =>
                  checked.error = "Template must include basic required fields: " \o
                      Join(SelectSeq(<<"title", "url", "type">>,
                                     LAMBDA f : f \notin RequiredSet(metadata)))

\* A named definition with a non-empty requiredFields array that leaves out
\* a basic field is rejected for the basic-fields rule.
C20_Witness ==
    /\ checked.fn = "validateMetadata"
    /\ NameRule(checked.metadata)
    /\ ArrayRule(checked.metadata)
    /\ NonEmptyRule(checked.metadata)
    /\ "type" \notin RequiredSet(checked.metadata)
    /\ ~checked.ok
    /\ checked.error = "Template must include basic required fields: type"

\* C21: once a step's prompt function has raised an exception that is not an
\* InputError, the chain is over: the error went to handleError, the
\* invocation is at no later prompt, it ended as a failure and nothing is
\* written.
C21_FatalErrorEndsChain ==
    \A i \in Inv :
        inv[i].fatalInChain =>
            /\ FailureNotices(inv[i]) > 0
            /\ inv[i].pc = "done"
            /\ inv[i].outcome = "fatal"
            /\ inv[i].creates = 0

\* What a promptFn may do, as promptWithRetry sees it
PromptOutcomes ==
    {Return(v) : v \in {Null, Undefined, Str(""), Str("Foo"), Num(0), Arr(<<>>)}}
        \cup {Throw("InputError", "invalid"), Throw("Error", "failed")}

\* The invocation was given up on an answer that was neither a cancel nor a
\* failure: a value was submitted and the caller's test took it for "no answer"
AbandonedOnValue(r) == r.pc = "done" /\ r.outcome = "empty"

\* C22: promptWithRetry returns null only when the prompt function returned
\* null or undefined or a fatal error occurred, and no invocation is given up
\* because the user submitted an empty string.
C22_EmptyStringIsNotCancellation ==
    /\ \A out \in PromptOutcomes :
          (~promptWithRetry(out).loop /\ promptWithRetry(out).value = Null) =>
              (out.k = "Error" \/ (out.k = "return" /\ IsNullish(out.v)))
    /\ \A i \in Inv : ~AbandonedOnValue(inv[i])

\* The name of the generated command of a key
DynamicCommandName(type) == "Create " \o type \o " File (Dynamic)"

\* How many registered commands carry a name
Registered(name) == Cardinality({k \in 1..Len(plugin.commands) : plugin.commands[k] = name})

\* The keys the directory scan kept
ListedTypes == {lastScan.templateOptions[k].value : k \in 1..Len(lastScan.templateOptions)}

\* C23: after plugin load, every definition file that loaded successfully has
\* exactly one command 'Create <key> File (Dynamic)', a file that failed to
\* load has none, and the static manual command is registered.
C23_OneCommandPerLoadedDefinition ==
    lastScan.done =>
        /\ Registered("Create file from template") = 1
        /\ \A k \in 1..Len(scriptsDir.files) :
              EndsWithJs(scriptsDir.files[k]) =>
                  Registered(DynamicCommandName(ReplaceJs(scriptsDir.files[k]))) =
                      (IF ReplaceJs(scriptsDir.files[k]) \in ListedTypes THEN 1 ELSE 0)

\* The invocation called writeToFile and writeToFile has returned
WriteToFileReturned(r) == r.pc = "done" /\ r.folder # ""

\* C24: a call of writeToFile creates the folder only when it does not exist,
\* then makes exactly one attempt to create the artifact; a failed attempt
\* returns false without a retry, and no existing artifact is ever changed.
C24_WriteToFileOneAttempt ==
    /\ [](\A i \in Inv :
            WriteToFileReturned(inv[i]) =>
                /\ inv[i].creates = 1
                /\ inv[i].written \/ inv[i].outcome = "write")
    /\ [][\A i \in Inv :
            (inv[i].pc = "wMkdir" /\ inv'[i].pc # "wMkdir") =>
                (inv[i].folder \notin folders /\ inv'[i].pc = "wCreate")]_vars
    /\ [][\A p \in DOMAIN files : p \in DOMAIN files' /\ files'[p] = files[p]]_vars

\* The name has none of the characters a path forbids
PathSafe(name) == \A k \in 1..Len(name) : CharAt(name, k) \notin ForbiddenChars

\* C25: for the Wishlist and the Resource template, the artifact name handed
\* to writeToFile is the collected title with every path-forbidden character
\* replaced, so it holds none of them.
C25_ArtifactNameIsSanitized ==
    \A i \in Inv :
        (inv[i].folder # "" /\ inv[i].cls \in {"Wishlist", "Resource"}) =>
            /\ Len(inv[i].name) = Len(inv[i].title)
            /\ \A k \in 1..Len(inv[i].title) :
                  CharAt(inv[i].name, k) =
                      (IF CharAt(inv[i].title, k) \in ForbiddenChars
                       THEN "-" ELSE CharAt(inv[i].title, k))
            /\ PathSafe(inv[i].name)

C27_ExtraKeysReachTheTemplate ==
    \A i \in Inv :
        (inv[i].path = "url" /\ inv[i].passed # {}) => inv[i].extra \subseteq inv[i].passed

\* A value with everything after the first element of a sequence dropped
FirstOnly(v) ==
    IF v.t # "array" THEN v
    ELSE IF v.a = <<>> THEN Undefined
    ELSE Str(Head(v.a))

\* The bag with type, url and title so reduced
HeadsOnly(params) ==
    [params EXCEPT !.type = FirstOnly(@), !.url = FirstOnly(@), !.title = FirstOnly(@)]

\* C28: a protocol call does exactly what the call with each of type, url and
\* title reduced to its first element (a lone string as is) does, so the other
\* elements of a sequence have no effect; with an empty sequence for one of
\* the three it ends as a call with a missing parameter.
C28_FirstElementOfSequenceIsUsed ==
    [][\A i \in Inv : \A params \in WideBags :
          HandleUrlParams(i, params) =>
              /\ HandleUrlParams(i, HeadsOnly(params))
              /\ (Arr(<<>>) \in {params.type, params.url, params.title}) =>
                    MissingReported(inv'[i])]_vars

\* A call whose title and url came as sequences wrote the file named after
\* the first title
C28_Witness ==
    \E i \in Inv :
        /\ inv[i].bag.title = "Baz" /\ inv[i].bag.url = "https://y"
        /\ inv[i].written /\ inv[i].name = "Baz" /\ inv[i].url = "https://y"

\* The params object the template was called with has a non-empty value for key
Given(r, key) == \E e \in r.passed : e[1] = key /\ e[2].t = "string" /\ e[2].s # ""

C30_LoadFailureAborts ==
    \A i \in Inv :
        inv[i].loadFailed =>
            /\ inv[i].pc = "done"
            /\ ~inv[i].switched
            /\ ~inv[i].written /\ inv[i].creates = 0
            /\ FilePath(inv[i].type, inv[i].title) \notin DOMAIN files

\* C31: an instance whose template content is the empty string once its
\* constructor has run (never set, or set to '') never gets as far as
\* writeToFile: it is at no step of the write, has made no create call and has
\* written nothing, and once its prompt chain has returned its inputs,
\* createTemplatedFile has shown a failure and returned false.
NoContent(r) == r.cls \in {"Wishlist", "Resource", "Note", "Unset", "Emptied"}
                /\ AfterConstructor(Class(r.cls).setResourceTemplate) = ""

C31_NoContentNoArtifact ==
    \A i \in Inv :
        NoContent(inv[i]) =>
            /\ inv[i].pc \notin {"wExists", "wMkdir", "wCreate"}
            /\ inv[i].creates = 0
            /\ ~inv[i].written
            /\ \A p \in DOMAIN files : files[p].cls # inv[i].cls
            /\ inv[i].chainOk =>
                  /\ inv[i].pc = "done"
                  /\ inv[i].returned = "false"
                  /\ \E k \in 1..Len(inv[i].notices) : inv[i].notices[k].kind = "failure"

\* Both kinds of empty content got through the whole prompt chain: this one
\* is the constructor that never set it
C31_Witness ==
    /\ inv[1].cls = "Unset" /\ inv[1].chainOk /\ inv[1].returned = "false"
    /\ inv[1].pc = "done" /\ folders = {} /\ files = <<>>

\* C32: when every open prompt is answered in the end, with a valid value or
\* a cancel after finitely many invalid ones, every invocation that has begun
\* finishes, and no invocation calls vault.create more than once.
C32_AnsweredInvocationsFinish ==
    /\ [](\A i \in Inv : inv[i].creates <= 1)
    /\ \A i \in Inv : (inv[i].pc # "idle") ~> (inv[i].pc = "done")

\* An invocation that was asked again after an invalid input, went on and
\* finished with its one create call
C32_Witness ==
    /\ inv[1].pc = "done" /\ inv[1].inputErrors > 0 /\ inv[1].creates = 1 /\ inv[1].written

\* C33: an invocation has shown a success notice if and only if its own
\* vault.create call succeeded, that call then wrote the file at its path, and
\* no failure notice follows a success notice; in particular an invocation
\* whose create call was rejected shows no success notice.
Kinds(r) == [k \in 1..Len(r.notices) |-> r.notices[k].kind]

C33_SuccessNoticeIffCreated ==
    \A i \in Inv :
        LET r == inv[i]
            kinds == Kinds(r)
        IN  /\ (\E k \in DOMAIN kinds : kinds[k] = "success") <=> r.written
            /\ r.written => /\ r.creates = 1
                            /\ FilePath(r.folder, r.name) \in DOMAIN files
                            /\ r.pc = "done" /\ r.returned = "true"
            /\ \A k, m \in DOMAIN kinds :
                   kinds[k] = "success" /\ m > k => kinds[m] # "failure"

\* Two invocations raced for one path: the first wrote it and shows success,
\* the second had its create call rejected and shows failure only
C33_Witness ==
    /\ inv[1].written /\ inv[1].pc = "done"
    /\ inv[2].pc = "done" /\ inv[2].creates = 1 /\ ~inv[2].written
    /\ FilePath(inv[2].folder, inv[2].name) = FilePath(inv[1].folder, inv[1].name)
    /\ \A k \in 1..Len(inv[2].notices) : inv[2].notices[k].kind # "success"

\* C34: once writeToFile has returned false, the vault has no folder and no
\* file that it did not have when writeToFile was called (a single
\* invocation, so nothing else writes to the vault: it began empty).
C34_FailedWriteLeavesVaultUnchanged ==
    (WriteToFileReturned(inv[1]) /\ inv[1].returned = "false") =>
        (folders = {} /\ DOMAIN files = {})

HasAny(s, chars) == \E p \in 1..Len(s) : CharAt(s, p) \in chars
Plain(obj) ==
    \A k \in DOMAIN obj :
        /\ obj[k][1] # "" /\ ~HasAny(obj[k][1], {"=", "\n", "\r"})
        /\ ~HasAny(obj[k][2], {"\n", "\r"})

SameObject(a, b) == Keys(a) = Keys(b) /\ \A key \in Keys(a) : Value(a, key) = Value(b, key)

\* After updateConfig(updates) every key the file had that updates does not
\* name has its previous value
OthersKept ==
    LET call == configFile.call
        now  == readConfig(configFile.file)
    IN  (call.fn = "updateConfig" /\ ~call.threw /\ Plain(call.arg)) =>
            \A key \in Keys(call.before) \ Keys(call.arg) :
                key \in Keys(now.obj) /\ Value(now.obj, key) = Value(call.before, key)

\* C36 as stated: readConfig after writeConfig(obj) gives an object equal to
\* obj for every obj that meets the condition, and updateConfig keeps the
\* other keys.
C36_ConfigRoundTrips ==
    LET call == configFile.call
        now  == readConfig(configFile.file)
    IN  /\ (call.fn = "writeConfig" /\ Plain(call.arg)) =>
                (~now.threw /\ SameObject(now.obj, call.arg))
        /\ OthersKept

\* C36, amended: the same for every such obj that has no key "__proto__",
\* and updateConfig(updates), for updates that meet the condition, keeps the
\* value of every key it does not name.
C36_ConfigRoundTripsWithoutProto ==
    LET call == configFile.call
        now  == readConfig(configFile.file)
    IN  /\ (call.fn = "writeConfig" /\ Plain(call.arg) /\ "__proto__" \notin Keys(call.arg)) =>
                (~now.threw /\ SameObject(now.obj, call.arg))
        /\ OthersKept

\* A file written from {a, b}, then updateConfig({a: 'x=y'}): a has the new
\* value and b the one it had
C36_Witness ==
    LET call == configFile.call
        now  == readConfig(configFile.file)
    IN  /\ call.fn = "updateConfig" /\ ~call.threw
        /\ call.arg = << <<"a", "x=y">> >>
        /\ Keys(call.before) = {"a", "b"} /\ Value(call.before, "a") = "1"
        /\ SameObject(now.obj, << <<"a", "x=y">>, <<"b", Value(call.before, "b")>> >>)

\* The values of the status lines of the frontmatter of a note
FrontmatterStatuses(content) ==
    LET group == FrontmatterMatch(content).group
    IN  {SubSeq(group, p + 8, LineEnd(group, p)) :
            p \in {q \in 1..Len(group) : LineStart(group, q) /\ At(group, q, "status: ")}}

\* A wishlist note with frontmatter and the checkbox
Eligible(f) ==
    /\ f.cache.frontmatter /\ Contains(f.cache.tags, "wishlist")
    /\ CheckboxMatch(f.original).matched
    /\ FrontmatterMatch(f.original).matched

\* C37: after the first run of the command on a wishlist note with frontmatter
\* and the checkbox, the frontmatter's status is Inactive if the box is
\* checked and Active otherwise, and any other note has the content it began
\* with; after the second run the content is what it was after the first.
C37_StatusFollowsCheckboxIdempotently ==
    LET f == activeFile
        newStatus == IF CheckboxMatch(f.original).mark = "x" THEN "Inactive" ELSE "Active"
    IN  /\ Len(f.after) >= 1 =>
               IF Eligible(f) THEN FrontmatterStatuses(f.after[1]) = {newStatus}
               ELSE f.after[1] = f.original
        /\ Len(f.after) >= 2 => f.after[2] = f.after[1]

====
